---- MODULE Spec2Model ----
(***************************************************************************)
(* Model of the simulated development environment of StudioMessage.tsx:    *)
(* the virtual filesystem (localFiles), the SimulatedTerminal shell and    *)
(* its simulated git.                                                      *)
(*                                                                         *)
(* Strings are sequences of atoms.  An atom is a TLA+ string standing for  *)
(* the literal text it spells ("/", ".", "a", "README", "gitkeep", ...);   *)
(* no atom contains "/" or "." unless it is that character, and no two     *)
(* atoms start with the same character, so prefix tests and lexical order  *)
(* on atom sequences agree with those on the strings they spell.           *)
(* Commit ids are positive integers; EmptyId is the empty string '' and    *)
(* NullId is null.                                                         *)
(***************************************************************************)
EXTENDS Integers, Sequences, FiniteSets, TLC

VARIABLES
    files,            \* localFiles: Map path -> {content, language}
    activeTab,        \* type of the active tab: "file" or "terminal"
    cwd,              \* SimulatedTerminal state
    isGitInitialized,
    stagedFiles,
    commits,
    heads,
    currentBranch,
    stashes,
    output,           \* output of the last command, as pushed to the transcript
    historyLen,       \* commandHistory.length
    linesLen,         \* lines.length, the number of transcript entries
    isDebugging,      \* StudioMessage: the isDebugging flag
    showPostDebugPrompt, \* StudioMessage: the post-fix prompt is rendered
    pending,          \* number of generateContent calls that have not settled
    commandHistory,   \* submitted lines, most recent first (recall sessions;
                      \* the other sessions record its length, historyLen)
    historyIndex,     \* cursor of the recall, -1 when nothing is recalled
    rInput,           \* argument and result of the last resolvePath application
    rResult,
    input,            \* SimulatedTerminal: text of the input box
    lastTabPressTime, \* time of the last Tab with several matches, or 0
    lastAutocompleteOutput  \* matches shown under the input box, {} for null

vars == <<files, activeTab, cwd, isGitInitialized, stagedFiles, commits, heads,
          currentBranch, stashes, output, historyLen, linesLen, isDebugging,
          showPostDebugPrompt, pending, commandHistory, historyIndex, rInput, rResult, input, lastTabPressTime, lastAutocompleteOutput>>

\* ---------------------------------------------------------------- bounds
MaxHistory == 9
MaxSegs == 3
MaxDepth == 2

\* ---------------------------------------------------------------- strings
SLASH == "/"
DOT == "."

\* one-atom string
W(a) == <<a>>

ROOT == W(SLASH)
DOTDOT == <<DOT, DOT>>
GITKEEP == <<DOT, "gitkeep">>
README == <<"README", DOT, "md">>

\* UTF-16 code of the first character of an atom (order used by Array.sort)
Code(a) ==
    CASE a = "." -> 46
      [] a = "/" -> 47
      [] a = "README" -> 82
      [] a = "a" -> 97
      [] a = "b" -> 98
      [] a = "foo" -> 102
      [] a = "gitkeep" -> 103
      [] a = "i" -> 105
      [] a = "md" -> 109
      [] a = "ndex.js" -> 110
      [] a = "pp.js" -> 112
      [] a = "rc" -> 114
      [] a = "s" -> 115
      [] a = "x" -> 120
      [] a = "y" -> 121
      [] a = "z" -> 122
      [] OTHER -> 0

StartsWith(s, p) == Len(p) <= Len(s) /\ SubSeq(s, 1, Len(p)) = p

EndsWith(s, p) == Len(p) <= Len(s) /\ SubSeq(s, Len(s) - Len(p) + 1, Len(s)) = p

Includes(s, a) == \E i \in 1..Len(s) : s[i] = a

\* s.substring(n) with n counted from 0
Substring(s, n) == SubSeq(s, n + 1, Len(s))

\* s.split('/'): the segments between separators, empty ones included
RECURSIVE SplitAcc(_, _, _)
SplitAcc(s, cur, acc) ==
    IF s = <<>> THEN Append(acc, cur)
    ELSE IF Head(s) = SLASH THEN SplitAcc(Tail(s), <<>>, Append(acc, cur))
    ELSE SplitAcc(Tail(s), Append(cur, Head(s)), acc)

Split(s) == SplitAcc(s, <<>>, <<>>)

\* parts.filter(p => p)
FilterNonEmpty(parts) == SelectSeq(parts, LAMBDA p : p # <<>>)

\* parts.join('/')
RECURSIVE Join(_)
Join(parts) ==
    IF parts = <<>> THEN <<>>
    ELSE IF Len(parts) = 1 THEN parts[1]
    ELSE parts[1] \o W(SLASH) \o Join(Tail(parts))

\* lexical order of strings by character code
RECURSIVE StrLess(_, _)
StrLess(s, t) ==
    IF t = <<>> THEN FALSE
    ELSE IF s = <<>> THEN TRUE
    ELSE IF Head(s) = Head(t) THEN StrLess(Tail(s), Tail(t))
    ELSE Code(Head(s)) < Code(Head(t))

\* Array.from(set).sort()
RECURSIVE SortSet(_)
SortSet(S) ==
    IF S = {} THEN <<>>
    ELSE LET m == CHOOSE x \in S : \A y \in S \ {x} : StrLess(x, y)
         IN <<m>> \o SortSet(S \ {m})

\* ---------------------------------------------------------------- path resolver
\* ResolveParts with '..' kept when there is nothing to pop
RECURSIVE ResolvePartsEscaping(_, _)
ResolvePartsEscaping(parts, resolvedParts) ==
    IF parts = <<>> THEN resolvedParts
    ELSE LET part == Head(parts)
         IN IF part = DOTDOT /\ resolvedParts # <<>>
            THEN ResolvePartsEscaping(Tail(parts),
                                      SubSeq(resolvedParts, 1, Len(resolvedParts) - 1))
            ELSE IF part # W(DOT)
            THEN ResolvePartsEscaping(Tail(parts), Append(resolvedParts, part))
            ELSE ResolvePartsEscaping(Tail(parts), resolvedParts)

\* the loop of resolvePath: '..' pops, '.' is dropped, anything else is pushed
RECURSIVE ResolveParts(_, _)
ResolveParts(parts, resolvedParts) ==
    IF parts = <<>> THEN resolvedParts
    ELSE LET part == Head(parts)
         IN IF part = DOTDOT
            THEN ResolveParts(Tail(parts),
                              IF resolvedParts = <<>> THEN <<>>
                              ELSE SubSeq(resolvedParts, 1, Len(resolvedParts) - 1))
            ELSE IF part # W(DOT)
            THEN ResolveParts(Tail(parts), Append(resolvedParts, part))
            ELSE ResolveParts(Tail(parts), resolvedParts)

resolvePath(dir, targetPath) ==
    IF targetPath = <<>> THEN dir
    ELSE LET isAbsolute == Head(targetPath) = SLASH
             parts == FilterNonEmpty(Split(IF isAbsolute THEN targetPath
                                           ELSE dir \o W(SLASH) \o targetPath))
         IN W(SLASH) \o Join(ResolveParts(parts, <<>>))

isDirectory(fs, path) ==
    IF path = ROOT THEN TRUE
    ELSE LET normalizedPath == IF EndsWith(path, W(SLASH)) THEN path
                               ELSE path \o W(SLASH)
         IN \E p \in DOMAIN fs : StartsWith(p, normalizedPath)


\* ---------------------------------------------------------------- state
EmptyId == 0
NullId == -1

EmptyMap == [p \in {} |-> 0]

MAIN == W("main")

FileEntry(c, l) == [content |-> c, language |-> l]

\* a transcript output: a message, the argument it quotes, and listed items
Out(m, a, l) == [msg |-> m, arg |-> a, list |-> l]

NullOut == Out("null", <<>>, <<>>)

\* args[i] || '' (indices from 0, as in the source)
Arg(args, i) == IF Len(args) > i THEN args[i + 1] ELSE <<>>

Or(a, b) == IF a # <<>> THEN a ELSE b

\* the files map and the SimulatedTerminal state seen by one handler run
Cur == [files |-> files, cwd |-> cwd, isGitInitialized |-> isGitInitialized,
        stagedFiles |-> stagedFiles, commits |-> commits, heads |-> heads,
        currentBranch |-> currentBranch, stashes |-> stashes, output |-> output]

\* useState initial values of SimulatedTerminal
TerminalInit(fs) ==
    [files |-> fs, cwd |-> ROOT, isGitInitialized |-> FALSE, stagedFiles |-> {},
     commits |-> <<>>, heads |-> (MAIN :> EmptyId), currentBranch |-> MAIN,
     stashes |-> <<>>, output |-> Out("initialOutput", <<>>, <<>>)]

\* map without the keys of K
Without(m, K) == [p \in DOMAIN m \ K |-> m[p]]

\* new Map(m).set(k, v)
MapSet(m, k, v) == [p \in DOMAIN m \cup {k} |-> IF p = k THEN v ELSE m[p]]

\* ---------------------------------------------------------------- shell: filesystem commands
\* LsEntries without the trailing '/' on directories
LsEntriesNoMark(fs, prefix) ==
    { Split(Substring(p, Len(prefix)))[1]
      : p \in { q \in DOMAIN fs : StartsWith(q, prefix) } }

\* entries listed by ls for the directory prefix
LsEntries(fs, prefix) ==
    { LET remaining == Substring(p, Len(prefix))
          firstPart == Split(remaining)[1]
      IN IF Includes(remaining, SLASH) THEN firstPart \o W(SLASH) ELSE firstPart
      : p \in { q \in DOMAIN fs : StartsWith(q, prefix) } }

CmdLs(st, args) ==
    LET targetPath == resolvePath(st.cwd, Or(Arg(args, 0), W(DOT)))
        prefix == IF targetPath = ROOT THEN <<>>
                  ELSE Substring(targetPath, 1) \o W(SLASH)
    IN IF ~isDirectory(st.files, targetPath)
       THEN [st EXCEPT !.output = Out("ls: No such file or directory",
                                      Or(Arg(args, 0), W(DOT)), <<>>)]
       ELSE [st EXCEPT !.output = Out("ls", <<>>, SortSet(LsEntries(st.files, prefix)))]

CmdCd(st, args) ==
    LET targetPath == resolvePath(st.cwd, Or(Arg(args, 0), ROOT))
    IN IF isDirectory(st.files, targetPath)
       THEN [st EXCEPT !.cwd = targetPath, !.output = NullOut]
       ELSE [st EXCEPT !.output = Out("cd: No such file or directory", Arg(args, 0), <<>>)]

CmdCat(st, args) ==
    IF Arg(args, 0) = <<>>
    THEN [st EXCEPT !.output = Out("usage: cat [filename]", <<>>, <<>>)]
    ELSE LET pathKey == Substring(resolvePath(st.cwd, Arg(args, 0)), 1)
         IN IF pathKey \in DOMAIN st.files
            THEN [st EXCEPT !.output = Out("content", <<>>, <<st.files[pathKey].content>>)]
            ELSE [st EXCEPT !.output = Out("cat: No such file or directory",
                                           Arg(args, 0), <<>>)]

CmdMkdir(st, args) ==
    IF Arg(args, 0) = <<>>
    THEN [st EXCEPT !.output = Out("usage: mkdir [dirname]", <<>>, <<>>)]
    ELSE LET targetPath == resolvePath(st.cwd, Arg(args, 0))
             pathKey == Substring(targetPath, 1) \o W(SLASH) \o GITKEEP
         IN IF isDirectory(st.files, targetPath) \/ pathKey \in DOMAIN st.files
            THEN [st EXCEPT !.output = Out("mkdir: File exists", Arg(args, 0), <<>>)]
            ELSE [st EXCEPT !.files = MapSet(st.files, pathKey, FileEntry("", "text")),
                            !.output = NullOut]

CmdRm(st, args) ==
    IF Arg(args, 0) = <<>>
    THEN [st EXCEPT !.output = Out("usage: rm [file_or_directory]", <<>>, <<>>)]
    ELSE LET targetPath == resolvePath(st.cwd, Arg(args, 0))
             pathKey == Substring(targetPath, 1)
             dirPrefix == pathKey \o W(SLASH)
             doomed == IF isDirectory(st.files, targetPath)
                       THEN { p \in DOMAIN st.files :
                                \/ StartsWith(p, dirPrefix)
                                \/ p = pathKey \o W(SLASH) \o GITKEEP
                                \/ p = pathKey }
                       ELSE { p \in DOMAIN st.files : p = pathKey }
         IN IF doomed # {}
            THEN [st EXCEPT !.files = Without(st.files, doomed), !.output = NullOut]
            ELSE [st EXCEPT !.output = Out("rm: No such file or directory",
                                           Arg(args, 0), <<>>)]

\* ---------------------------------------------------------------- git helpers
\* commits.find(c => c.id === id): index of the first match, 0 when none
FindCommit(cs, id) ==
    IF \E i \in 1..Len(cs) : cs[i].id = id
    THEN CHOOSE i \in 1..Len(cs) : cs[i].id = id /\ \A j \in 1..(i - 1) : cs[j].id # id
    ELSE 0

\* files of commits.find(...), or an empty Map when there is no such commit
CommitFiles(cs, id) ==
    IF FindCommit(cs, id) = 0 THEN EmptyMap ELSE cs[FindCommit(cs, id)].files

\* index of getHeadCommit() in commits, 0 for null
getHeadCommit(st) ==
    IF ~st.isGitInitialized THEN 0
    ELSE FindCommit(st.commits, st.heads[st.currentBranch])

HeadFiles(st) ==
    IF getHeadCommit(st) = 0 THEN EmptyMap ELSE st.commits[getHeadCommit(st)].files

\* Math.random().toString(36).substring(2, 9), taken to be an id not in use
NewId(cs) == Len(cs) + 1

\* args.slice(2).join(' ').replace(/"/g, '') over the tokens after -m
RECURSIVE JoinSpace(_)
JoinSpace(tokens) ==
    IF tokens = <<>> THEN <<>>
    ELSE IF Len(tokens) = 1 THEN tokens[1]
    ELSE tokens[1] \o W(" ") \o JoinSpace(Tail(tokens))

\* CommitMessage with the quotes left in
CommitMessageQuoted(args) == JoinSpace(SubSeq(args, 3, Len(args)))

CommitMessage(args) ==
    SelectSeq(JoinSpace(SubSeq(args, 3, Len(args))), LAMBDA a : a # "\"")

\* ---------------------------------------------------------------- git subcommands
\* GitInit that empties the commit list and keeps the branch table
GitInitKeepHeads(st, args) ==
    [st EXCEPT !.isGitInitialized = TRUE, !.commits = <<>>, !.stagedFiles = {},
               !.output = Out("Initialized empty Git repository.", <<>>, <<>>)]

GitInit(st, args) ==
    [st EXCEPT !.isGitInitialized = TRUE, !.heads = (MAIN :> EmptyId),
               !.currentBranch = MAIN, !.commits = <<>>, !.stagedFiles = {},
               !.output = Out("Initialized empty Git repository.", <<>>, <<>>)]

\* GitAdd that stages the resolved path without looking it up
GitAddAnyPath(st, args) ==
    LET fileToAdd == Arg(args, 1)
        lastCommitFiles == HeadFiles(st)
        resolvedFile == Substring(resolvePath(st.cwd, fileToAdd), 1)
    IN IF fileToAdd = <<>>
       THEN [st EXCEPT !.output = Out("Nothing specified, nothing added.", <<>>, <<>>)]
       ELSE IF fileToAdd = W(DOT)
       THEN [st EXCEPT !.stagedFiles = st.stagedFiles \cup DOMAIN st.files
                           \cup { q \in DOMAIN lastCommitFiles : q \notin DOMAIN st.files },
                       !.output = Out("Staged all changes.", <<>>, <<>>)]
       ELSE [st EXCEPT !.stagedFiles = st.stagedFiles \cup {resolvedFile},
                       !.output = Out("Staged", fileToAdd, <<>>)]

GitAdd(st, args) ==
    LET fileToAdd == Arg(args, 1)
        lastCommitFiles == HeadFiles(st)
        resolvedFile == Substring(resolvePath(st.cwd, fileToAdd), 1)
    IN IF fileToAdd = <<>>
       THEN [st EXCEPT !.output = Out("Nothing specified, nothing added.", <<>>, <<>>)]
       ELSE IF fileToAdd = W(DOT)
       THEN [st EXCEPT !.stagedFiles = st.stagedFiles \cup DOMAIN st.files
                           \cup { q \in DOMAIN lastCommitFiles : q \notin DOMAIN st.files },
                       !.output = Out("Staged all changes.", <<>>, <<>>)]
       ELSE IF resolvedFile \in DOMAIN st.files \/ resolvedFile \in DOMAIN lastCommitFiles
       THEN [st EXCEPT !.stagedFiles = st.stagedFiles \cup {resolvedFile},
                       !.output = Out("Staged", fileToAdd, <<>>)]
       ELSE [st EXCEPT !.output = Out("fatal: pathspec did not match any files",
                                      fileToAdd, <<>>)]

\* FilesToCommit that keeps the parent's entry of a staged path that is gone
FilesToCommitKeepRemoved(st) ==
    LET parent == HeadFiles(st)
        keys == DOMAIN parent \cup (st.stagedFiles \cap DOMAIN st.files)
    IN [p \in keys |-> IF p \in st.stagedFiles /\ p \in DOMAIN st.files
                       THEN st.files[p] ELSE parent[p]]

\* the snapshot built by commit: the parent's files with every staged path
\* copied from the working files, or removed when it is not there
FilesToCommit(st) ==
    LET parent == HeadFiles(st)
        keys == (DOMAIN parent \ st.stagedFiles)
                \cup (st.stagedFiles \cap DOMAIN st.files)
    IN [p \in keys |-> IF p \in st.stagedFiles THEN st.files[p] ELSE parent[p]]

\* GitCommit that names as parent a commit that is not in the list
GitCommitForwardParent(st, args) ==
    IF Arg(args, 1) = W("-m") /\ Arg(args, 2) # <<>>
    THEN IF st.stagedFiles = {}
         THEN [st EXCEPT !.output = Out("nothing to commit, working tree clean", <<>>, <<>>)]
         ELSE LET newCommit == [id |-> NewId(st.commits),
                                message |-> CommitMessage(args),
                                files |-> FilesToCommit(st),
                                parentId |-> NewId(st.commits) + 1]
              IN [st EXCEPT !.commits = Append(st.commits, newCommit),
                            !.heads = MapSet(st.heads, st.currentBranch, newCommit.id),
                            !.stagedFiles = {},
                            !.output = Out("committed", st.currentBranch, <<newCommit.id>>)]
    ELSE [st EXCEPT !.output = Out("usage: git commit -m", <<>>, <<>>)]

\* GitCommit without the test for an empty staging set
GitCommitAllowEmpty(st, args) ==
    LET parentCommit == getHeadCommit(st)
        newCommit == [id |-> NewId(st.commits),
                      message |-> CommitMessage(args),
                      files |-> FilesToCommit(st),
                      parentId |-> IF parentCommit = 0 THEN NullId
                                   ELSE st.commits[parentCommit].id]
    IN [st EXCEPT !.commits = Append(st.commits, newCommit),
                  !.heads = MapSet(st.heads, st.currentBranch, newCommit.id),
                  !.stagedFiles = {},
                  !.output = Out("committed", st.currentBranch, <<newCommit.id>>)]

GitCommit(st, args) ==
    IF Arg(args, 1) = W("-m") /\ Arg(args, 2) # <<>>
    THEN IF st.stagedFiles = {}
         THEN [st EXCEPT !.output = Out("nothing to commit, working tree clean", <<>>, <<>>)]
         ELSE LET parentCommit == getHeadCommit(st)
                  newCommit == [id |-> NewId(st.commits),
                                message |-> CommitMessage(args),
                                files |-> FilesToCommit(st),
                                parentId |-> IF parentCommit = 0 THEN NullId
                                             ELSE st.commits[parentCommit].id]
              IN [st EXCEPT !.commits = Append(st.commits, newCommit),
                            !.heads = MapSet(st.heads, st.currentBranch, newCommit.id),
                            !.stagedFiles = {},
                            !.output = Out("committed", st.currentBranch, <<newCommit.id>>)]
    ELSE [st EXCEPT !.output = Out("usage: git commit -m", <<>>, <<>>)]

\* the walk of log: one entry per commit from id back along parentId
RECURSIVE LogFrom(_, _, _)
LogFrom(cs, id, headId) ==
    IF id <= 0 \/ FindCommit(cs, id) = 0 THEN <<>>
    ELSE LET c == cs[FindCommit(cs, id)]
         IN <<[id |-> c.id, message |-> c.message, isHead |-> headId = c.id]>>
            \o LogFrom(cs, c.parentId, headId)

GitLog(st, args) ==
    LET logOutput == LogFrom(st.commits, st.heads[st.currentBranch],
                             st.heads[st.currentBranch])
    IN IF logOutput = <<>>
       THEN [st EXCEPT !.output = Out("No commits yet.", <<>>, <<>>)]
       ELSE [st EXCEPT !.output = Out("log", st.currentBranch, logOutput)]

\* GitBranch that, for an existing name, reports the error and still moves
\* that branch to the current head
GitBranchMovesExisting(st, args) ==
    LET newBranchName == Arg(args, 1)
    IN IF newBranchName # <<>>
       THEN IF newBranchName \in DOMAIN st.heads
            THEN [st EXCEPT !.heads = MapSet(st.heads, newBranchName,
                                             st.heads[st.currentBranch]),
                            !.output = Out("fatal: A branch already exists.",
                                           newBranchName, <<>>)]
            ELSE [st EXCEPT !.heads = MapSet(st.heads, newBranchName,
                                             st.heads[st.currentBranch]),
                            !.output = Out("Branch created.", newBranchName, <<>>)]
       ELSE [st EXCEPT !.output = Out("branches", st.currentBranch, DOMAIN st.heads)]

\* GitBranch that starts the new branch without a head
GitBranchWithoutHead(st, args) ==
    LET newBranchName == Arg(args, 1)
    IN IF newBranchName # <<>>
       THEN IF newBranchName \in DOMAIN st.heads
            THEN [st EXCEPT !.output = Out("fatal: A branch already exists.",
                                           newBranchName, <<>>)]
            ELSE [st EXCEPT !.heads = MapSet(st.heads, newBranchName, EmptyId),
                            !.output = Out("Branch created.", newBranchName, <<>>)]
       ELSE [st EXCEPT !.output = Out("branches", st.currentBranch, DOMAIN st.heads)]

GitBranch(st, args) ==
    LET newBranchName == Arg(args, 1)
    IN IF newBranchName # <<>>
       THEN IF newBranchName \in DOMAIN st.heads
            THEN [st EXCEPT !.output = Out("fatal: A branch already exists.",
                                           newBranchName, <<>>)]
            ELSE [st EXCEPT !.heads = MapSet(st.heads, newBranchName,
                                             st.heads[st.currentBranch]),
                            !.output = Out("Branch created.", newBranchName, <<>>)]
       ELSE [st EXCEPT !.output = Out("branches", st.currentBranch, DOMAIN st.heads)]

\* GitCheckout that keeps working files the branch snapshot does not have
GitCheckoutKeepWorking(st, args) ==
    LET branchName == Arg(args, 1)
        snapshot == CommitFiles(st.commits, st.heads[branchName])
    IN IF branchName = <<>> \/ branchName \notin DOMAIN st.heads
       THEN [st EXCEPT !.output = Out("error: pathspec did not match", branchName, <<>>)]
       ELSE [st EXCEPT !.currentBranch = branchName,
                       !.files = [p \in DOMAIN st.files \cup DOMAIN snapshot |->
                                     IF p \in DOMAIN snapshot THEN snapshot[p]
                                     ELSE st.files[p]],
                       !.stagedFiles = {},
                       !.output = Out("Switched to branch", branchName, <<>>)]

\* GitCheckout that leaves the staging set as it is
GitCheckoutKeepStaged(st, args) ==
    LET branchName == Arg(args, 1)
    IN IF branchName = <<>> \/ branchName \notin DOMAIN st.heads
       THEN [st EXCEPT !.output = Out("error: pathspec did not match", branchName, <<>>)]
       ELSE [st EXCEPT !.currentBranch = branchName,
                       !.files = CommitFiles(st.commits, st.heads[branchName]),
                       !.output = Out("Switched to branch", branchName, <<>>)]

GitCheckout(st, args) ==
    LET branchName == Arg(args, 1)
    IN IF branchName = <<>>
       THEN [st EXCEPT !.output = Out("usage: git checkout <branch>", <<>>, <<>>)]
       ELSE IF branchName \notin DOMAIN st.heads
       THEN [st EXCEPT !.output = Out("error: pathspec did not match", branchName, <<>>)]
       ELSE [st EXCEPT !.currentBranch = branchName,
                       !.files = CommitFiles(st.commits, st.heads[branchName]),
                       !.stagedFiles = {},
                       !.output = Out("Switched to branch", branchName, <<>>)]

\* ids of the target head and its ancestors (targetHistoryIds)
RECURSIVE TargetHistoryIds(_, _)
TargetHistoryIds(cs, tcId) ==
    IF tcId <= 0 THEN {}
    ELSE {tcId} \cup TargetHistoryIds(cs, IF FindCommit(cs, tcId) = 0 THEN NullId
                                          ELSE cs[FindCommit(cs, tcId)].parentId)

\* CommitsToReplay that does not stop at the target history
RECURSIVE CommitsToReplayAll(_, _, _)
CommitsToReplayAll(cs, currentCommitId, targetHistoryIds) ==
    IF currentCommitId <= 0 THEN <<>>
    ELSE IF FindCommit(cs, currentCommitId) = 0 THEN <<>>
    ELSE LET commit == cs[FindCommit(cs, currentCommitId)]
         IN Append(CommitsToReplayAll(cs, commit.parentId, targetHistoryIds), commit)

\* commitsToReplay: from the current head back to the first id of the target
\* history, oldest first
RECURSIVE CommitsToReplay(_, _, _)
CommitsToReplay(cs, currentCommitId, targetHistoryIds) ==
    IF currentCommitId <= 0 \/ currentCommitId \in targetHistoryIds THEN <<>>
    ELSE IF FindCommit(cs, currentCommitId) = 0 THEN <<>>
    ELSE LET commit == cs[FindCommit(cs, currentCommitId)]
         IN Append(CommitsToReplay(cs, commit.parentId, targetHistoryIds), commit)

\* ReplayOnto with the parentId of the replayed commit left as it was
RECURSIVE ReplayKeepParent(_, _, _)
ReplayKeepParent(newCommits, commitsToReplay, lastReplayedCommitId) ==
    IF commitsToReplay = <<>> THEN newCommits
    ELSE LET newCommit == [Head(commitsToReplay) EXCEPT !.id = NewId(newCommits)]
         IN ReplayKeepParent(Append(newCommits, newCommit), Tail(commitsToReplay),
                             newCommit.id)

\* ReplayOnto that rewrites the parentId of the replayed commits in the list
RECURSIVE ReplayInPlace(_, _, _)
ReplayInPlace(newCommits, commitsToReplay, lastReplayedCommitId) ==
    IF commitsToReplay = <<>> THEN newCommits
    ELSE LET i == FindCommit(newCommits, Head(commitsToReplay).id)
         IN ReplayInPlace([newCommits EXCEPT ![i].parentId = lastReplayedCommitId],
                          Tail(commitsToReplay), Head(commitsToReplay).id)

\* the replay loop: each commit copied with a new id onto the last replayed one
RECURSIVE ReplayOnto(_, _, _)
ReplayOnto(newCommits, commitsToReplay, lastReplayedCommitId) ==
    IF commitsToReplay = <<>> THEN newCommits
    ELSE LET newCommit == [Head(commitsToReplay) EXCEPT
                              !.id = NewId(newCommits),
                              !.parentId = lastReplayedCommitId]
         IN ReplayOnto(Append(newCommits, newCommit), Tail(commitsToReplay), newCommit.id)

GitRebase(st, args) ==
    LET targetBranch == Arg(args, 1)
    IN IF targetBranch = <<>>
       THEN [st EXCEPT !.output = Out("usage: git rebase <branch>", <<>>, <<>>)]
       ELSE IF targetBranch \notin DOMAIN st.heads
       THEN [st EXCEPT !.output = Out("fatal: invalid upstream", targetBranch, <<>>)]
       ELSE IF targetBranch = st.currentBranch
       THEN [st EXCEPT !.output = Out("Current branch is up to date.", st.currentBranch, <<>>)]
       ELSE LET targetCommitId == st.heads[targetBranch]
                targetHistoryIds == TargetHistoryIds(st.commits, targetCommitId)
                commitsToReplay == CommitsToReplay(st.commits, st.heads[st.currentBranch],
                                                   targetHistoryIds)
                newCommits == ReplayOnto(st.commits, commitsToReplay, targetCommitId)
                lastReplayedCommitId == newCommits[Len(newCommits)].id
            IN IF commitsToReplay = <<>>
               THEN [st EXCEPT !.output = Out("Current branch is up to date.",
                                              st.currentBranch, <<>>)]
               ELSE [st EXCEPT !.commits = newCommits,
                               !.heads = MapSet(st.heads, st.currentBranch,
                                                lastReplayedCommitId),
                               !.files = CommitFiles(newCommits, lastReplayedCommitId),
                               !.output = Out("Successfully rebased and updated",
                                              st.currentBranch, <<>>)]

\* the changes recorded by stash: working files against the head snapshot
StashChanges(st) ==
    LET head == HeadFiles(st)
    IN [modified |-> [p \in { q \in DOMAIN st.files \cap DOMAIN head :
                                head[q].content # st.files[q].content }
                        |-> [oldContent |-> head[p].content,
                             newContent |-> st.files[p].content]],
        added |-> [p \in DOMAIN st.files \ DOMAIN head |-> st.files[p]],
        deleted |-> [p \in DOMAIN head \ DOMAIN st.files |-> head[p]],
        staged |-> st.stagedFiles]

\* GitStash that leaves the working files as they are
GitStashKeepWorking(st, args) ==
    IF getHeadCommit(st) = 0
    THEN [st EXCEPT !.output = Out("Cannot stash without a commit.", <<>>, <<>>)]
    ELSE LET headCommit == st.commits[getHeadCommit(st)]
             changes == StashChanges(st)
             hasChanges == DOMAIN changes.modified # {} \/ DOMAIN changes.added # {}
                           \/ DOMAIN changes.deleted # {}
             newStash == [id |-> Len(st.stashes),
                          message |-> <<st.currentBranch, headCommit.id, headCommit.message>>,
                          branch |-> st.currentBranch,
                          headCommitId |-> headCommit.id,
                          changes |-> changes]
         IN IF ~hasChanges
            THEN [st EXCEPT !.output = Out("No local changes to save", <<>>, <<>>)]
            ELSE [st EXCEPT !.stashes = <<newStash>> \o st.stashes,
                            !.stagedFiles = {},
                            !.output = Out("Saved working directory and index state",
                                           st.currentBranch, <<headCommit.id>>)]

GitStash(st, args) ==
    IF getHeadCommit(st) = 0
    THEN [st EXCEPT !.output = Out("Cannot stash without a commit.", <<>>, <<>>)]
    ELSE LET headCommit == st.commits[getHeadCommit(st)]
             changes == StashChanges(st)
             hasChanges == DOMAIN changes.modified # {} \/ DOMAIN changes.added # {}
                           \/ DOMAIN changes.deleted # {}
             newStash == [id |-> Len(st.stashes),
                          message |-> <<st.currentBranch, headCommit.id, headCommit.message>>,
                          branch |-> st.currentBranch,
                          headCommitId |-> headCommit.id,
                          changes |-> changes]
         IN IF ~hasChanges
            THEN [st EXCEPT !.output = Out("No local changes to save", <<>>, <<>>)]
            ELSE [st EXCEPT !.stashes = <<newStash>> \o st.stashes,
                            !.files = headCommit.files,
                            !.stagedFiles = {},
                            !.output = Out("Saved working directory and index state",
                                           st.currentBranch, <<headCommit.id>>)]

\* the six lists of status, as sets of paths
StatusLists(st) ==
    LET last == HeadFiles(st)
        shown == { p \in DOMAIN st.files : ~EndsWith(p, W(SLASH) \o GITKEEP) }
    IN [stagedNew |-> { p \in shown : p \notin DOMAIN last /\ p \in st.stagedFiles },
        untracked |-> { p \in shown : p \notin DOMAIN last /\ p \notin st.stagedFiles },
        stagedModified |-> { p \in shown \cap DOMAIN last :
                               st.files[p].content # last[p].content
                               /\ p \in st.stagedFiles },
        modifiedNotStaged |-> { p \in shown \cap DOMAIN last :
                                  st.files[p].content # last[p].content
                                  /\ p \notin st.stagedFiles },
        stagedDeleted |-> { p \in DOMAIN last \ DOMAIN st.files : p \in st.stagedFiles },
        deletedNotStaged |-> { p \in DOMAIN last \ DOMAIN st.files :
                                 p \notin st.stagedFiles }]

GitStatus(st, args) ==
    LET l == StatusLists(st)
        hasStaged == l.stagedNew \cup l.stagedModified \cup l.stagedDeleted # {}
        hasNotStaged == l.modifiedNotStaged \cup l.deletedNotStaged # {}
    IN IF ~hasStaged /\ ~hasNotStaged /\ l.untracked = {}
       THEN [st EXCEPT !.output = Out("On branch: nothing to commit, working tree clean",
                                      st.currentBranch, <<l>>)]
       ELSE [st EXCEPT !.output = Out("On branch", st.currentBranch, <<l>>)]

\* the files after the added, modified and deleted maps of a stash are applied
ApplyStashChanges(fs, changes) ==
    LET afterAdded == [p \in DOMAIN fs \cup DOMAIN changes.added |->
                          IF p \in DOMAIN changes.added THEN changes.added[p] ELSE fs[p]]
        afterModified == [p \in DOMAIN afterAdded |->
                             IF p \in DOMAIN changes.modified
                             THEN [afterAdded[p] EXCEPT
                                      !.content = changes.modified[p].newContent]
                             ELSE afterAdded[p]]
    IN Without(afterModified, DOMAIN changes.deleted)

\* body shared by the two pop/apply branches of the default case
StashApply(st, isPop) ==
    IF Len(st.stashes) > 0
    THEN LET stashToApply == st.stashes[1]
         IN [st EXCEPT !.files = ApplyStashChanges(st.files, stashToApply.changes),
                       !.stagedFiles = stashToApply.changes.staged,
                       !.stashes = IF isPop THEN Tail(st.stashes) ELSE st.stashes,
                       !.output = IF isPop
                                  THEN Out("Dropped refs/stash@{0}", <<>>, <<>>)
                                  ELSE Out("changes applied", st.currentBranch, <<>>)]
    ELSE [st EXCEPT !.output = Out("No stash found.", <<>>, <<>>)]

\* the default case of the subcommand switch
GitDefault(st, args) ==
    LET subCommand == Arg(args, 0)
    IN IF StartsWith(subCommand, <<"stash", "@">>)
       THEN StashApply(st, Includes(subCommand, "pop"))
       ELSE IF subCommand = W("stash") /\ Arg(args, 1) = W("list")
       THEN [st EXCEPT !.output = Out("stash list", <<>>,
                                      [i \in 1..Len(st.stashes) |-> st.stashes[i].message])]
       ELSE IF subCommand = W("stash") /\ Arg(args, 1) \in {W("pop"), W("apply")}
       THEN StashApply(st, Arg(args, 1) = W("pop"))
       ELSE [st EXCEPT !.output = Out("is not a git command", subCommand, <<>>)]

\* CmdGit without the test for an initialized repository
CmdGitNoGuard(st, args) ==
    LET subCommand == Arg(args, 0)
    IN CASE subCommand = W("init") -> GitInit(st, args)
         [] subCommand = W("add") -> GitAdd(st, args)
         [] subCommand = W("commit") -> GitCommit(st, args)
         [] subCommand = W("log") -> GitLog(st, args)
         [] subCommand = W("branch") -> GitBranch(st, args)
         [] subCommand = W("checkout") -> GitCheckout(st, args)
         [] subCommand = W("rebase") -> GitRebase(st, args)
         [] subCommand = W("stash") -> GitStash(st, args)
         [] subCommand = W("status") -> GitStatus(st, args)
         [] OTHER -> GitDefault(st, args)

CmdGit(st, args) ==
    LET subCommand == Arg(args, 0)
    IN IF ~st.isGitInitialized /\ subCommand # W("init")
       THEN [st EXCEPT !.output = Out("fatal: not a git repository", <<>>, <<>>)]
       ELSE CASE subCommand = W("init") -> GitInit(st, args)
              [] subCommand = W("add") -> GitAdd(st, args)
              [] subCommand = W("commit") -> GitCommit(st, args)
              [] subCommand = W("log") -> GitLog(st, args)
              [] subCommand = W("branch") -> GitBranch(st, args)
              [] subCommand = W("checkout") -> GitCheckout(st, args)
              [] subCommand = W("rebase") -> GitRebase(st, args)
              [] subCommand = W("stash") -> GitStash(st, args)
              [] subCommand = W("status") -> GitStatus(st, args)
              [] OTHER -> GitDefault(st, args)

\* the switch on the command name of a submitted line (tokens after split)
RunCommand(st, line) ==
    LET command == Head(line)
        args == Tail(line)
    IN CASE command = W("clear") -> [st EXCEPT !.output = NullOut]
         [] command = W("help") -> [st EXCEPT !.output = Out("Available commands", <<>>, <<>>)]
         [] command = W("ls") -> CmdLs(st, args)
         [] command = W("cd") -> CmdCd(st, args)
         [] command = W("cat") -> CmdCat(st, args)
         [] command = W("mkdir") -> CmdMkdir(st, args)
         [] command = W("rm") -> CmdRm(st, args)
         [] command = W("git") -> CmdGit(st, args)
         [] OTHER -> [st EXCEPT !.output = Out("command not found", command, <<>>)]

\* ---------------------------------------------------------------- project and editor
\* the files map built when a project is loaded: its files and README.md
LoadProject(projectFiles, explanation) ==
    MapSet(projectFiles, README, FileEntry(explanation, "markdown"))

\* handleFileContentChange that loses the typed content
FileContentChangeDropped(fs, path, newContent) == fs

\* handleFileContentChange: the content of an existing path is replaced
FileContentChange(fs, path, newContent) ==
    IF path \in DOMAIN fs
    THEN [fs EXCEPT ![path] = [fs[path] EXCEPT !.content = newContent]]
    ELSE fs

\* FixUpsert that keeps the fixed files only
RECURSIVE FixUpsertOnlyFixed(_, _)
FixUpsertOnlyFixed(fs, fixedFiles) ==
    IF fixedFiles = <<>> THEN EmptyMap
    ELSE LET file == fixedFiles[Len(fixedFiles)]
         IN MapSet(FixUpsertOnlyFixed(fs, SubSeq(fixedFiles, 1, Len(fixedFiles) - 1)),
                   file.path, FileEntry(file.content, file.language))

\* handleRunDebugger, on the response: each fixed file is set in the files map,
\* in the order of fixedFiles
RECURSIVE FixUpsert(_, _)
FixUpsert(fs, fixedFiles) ==
    IF fixedFiles = <<>> THEN fs
    ELSE LET file == Head(fixedFiles)
         IN FixUpsert(MapSet(fs, file.path, FileEntry(file.content, file.language)),
                      Tail(fixedFiles))

\* ---------------------------------------------------------------- file tree
\* the nodes of the tree built from the files, as a set: every file that is
\* not a placeholder gives a file node and a folder node for each directory
\* above it (the order of the children is not kept)
buildFileTree(fs) ==
    UNION { { [name |-> Split(p)[k], path |-> Join(SubSeq(Split(p), 1, k)),
               type |-> IF k = Len(Split(p)) THEN "file" ELSE "folder"] :
              k \in 1..Len(Split(p)) } :
            p \in { q \in DOMAIN fs : ~EndsWith(q, W(SLASH) \o GITKEEP) } }

\* ---------------------------------------------------------------- completion
\* Names that completion compares by prefix are spelled one character per atom.
\* File names are spelled in atoms that share no first character unless equal,
\* so that a common prefix in atoms is the common prefix in characters.
SPACE == " "

\* the command names offered for the first word
commands ==
    << <<"c", "l", "e", "a", "r">>, <<"h", "e", "l", "p">>, <<"l", "s">>, <<"c", "d">>,
       <<"c", "a", "t">>, <<"m", "k", "d", "i", "r">>, <<"r", "m">>, <<"g", "i", "t">> >>

\* the subcommands offered for the second word after git
gitSubCommands ==
    << <<"i", "n", "i", "t">>, <<"a", "d", "d">>, <<"c", "o", "m", "m", "i", "t">>,
       <<"l", "o", "g">>, <<"b", "r", "a", "n", "c", "h">>,
       <<"s", "t", "a", "t", "u", "s">>, <<"c", "h", "e", "c", "k", "o", "u", "t">>,
       <<"r", "e", "b", "a", "s", "e">>, <<"s", "t", "a", "s", "h">> >>

\* the window of a repeated Tab, in milliseconds
RepeatWindow == 500

\* input.split(' '): the parts between spaces, empty ones included
RECURSIVE SplitSpaceAcc(_, _, _)
SplitSpaceAcc(s, cur, acc) ==
    IF s = <<>> THEN Append(acc, cur)
    ELSE IF Head(s) = SPACE THEN SplitSpaceAcc(Tail(s), <<>>, Append(acc, cur))
    ELSE SplitSpaceAcc(Tail(s), Append(cur, Head(s)), acc)

SplitSpace(s) == SplitSpaceAcc(s, <<>>, <<>>)

\* s.lastIndexOf('/') + 1
RECURSIVE LastSlashEnd(_)
LastSlashEnd(s) ==
    IF s = <<>> THEN 0
    ELSE IF s[Len(s)] = SLASH THEN Len(s)
    ELSE LastSlashEnd(SubSeq(s, 1, Len(s) - 1))

\* the entries of the directory named by the text before the last '/' of the
\* part, as collected by the loop over the keys
PathEntries(fs, dir, currentPart) ==
    LET pathPrefix == SubSeq(currentPart, 1, LastSlashEnd(currentPart))
        targetDir == resolvePath(dir, Or(pathPrefix, W(DOT)))
        dirPrefix == IF targetDir = ROOT THEN <<>> ELSE Substring(targetDir, 1) \o W(SLASH)
    IN { LET remaining == Substring(p, Len(dirPrefix))
         IN Split(remaining)[1] \o (IF Includes(remaining, SLASH) THEN W(SLASH) ELSE <<>>) :
         p \in { q \in DOMAIN fs : StartsWith(q, dirPrefix) /\ Len(q) > Len(dirPrefix) } }

\* PathEntries without the placeholder entries
PathEntriesNoPlaceholder(fs, dir, currentPart) ==
    LET pathPrefix == SubSeq(currentPart, 1, LastSlashEnd(currentPart))
        targetDir == resolvePath(dir, Or(pathPrefix, W(DOT)))
        dirPrefix == IF targetDir = ROOT THEN <<>> ELSE Substring(targetDir, 1) \o W(SLASH)
    IN { LET remaining == Substring(p, Len(dirPrefix))
         IN Split(remaining)[1] \o (IF Includes(remaining, SLASH) THEN W(SLASH) ELSE <<>>) :
         p \in { q \in DOMAIN fs : /\ StartsWith(q, dirPrefix)
                                   /\ Len(q) > Len(dirPrefix)
                                   /\ Substring(q, Len(dirPrefix)) # GITKEEP } }

\* whether the last part is completed as a path
IsPath(parts) == ~(Len(parts) = 1 \/ (parts[1] = <<"g", "i", "t">> /\ Len(parts) = 2))

\* matchingEntries of the Tab branch, as a set: the order of the keys of the
\* files map is not kept
MatchingEntries(fs, dir, inp) ==
    LET parts == SplitSpace(inp)
        currentPart == parts[Len(parts)]
        partialName == Substring(currentPart, LastSlashEnd(currentPart))
    IN IF Len(parts) = 1
       THEN { commands[i] : i \in { j \in 1..Len(commands) :
                                      StartsWith(commands[j], currentPart) } }
       ELSE IF parts[1] = <<"g", "i", "t">> /\ Len(parts) = 2
       THEN { gitSubCommands[i] : i \in { j \in 1..Len(gitSubCommands) :
                                            StartsWith(gitSubCommands[j], currentPart) } }
       ELSE { e \in PathEntries(fs, dir, currentPart) : StartsWith(e, partialName) }

\* the inner while loop: the prefix shortened until s starts with it
RECURSIVE ShrinkTo(_, _)
ShrinkTo(prefix, s) ==
    IF StartsWith(s, prefix) THEN prefix
    ELSE ShrinkTo(SubSeq(prefix, 1, Len(prefix) - 1), s)

RECURSIVE LcpFrom(_, _)
LcpFrom(prefix, rest) ==
    IF rest = {} \/ prefix = <<>> THEN prefix
    ELSE LET s == CHOOSE x \in rest : TRUE
         IN LcpFrom(ShrinkTo(prefix, s), rest \ {s})

findLongestCommonPrefix(strs) ==
    IF strs = {} THEN <<>>
    ELSE LET first == CHOOSE x \in strs : TRUE
         IN LcpFrom(first, strs \ {first})

\* the text of the input box, the timer and the list shown, as one record
TabState(inp, t, shown) ==
    [input |-> inp, lastTabPressTime |-> t, lastAutocompleteOutput |-> shown]

\* parts with the last one replaced
ReplaceLast(parts, part) == [parts EXCEPT ![Len(parts)] = part]

\* HandleTab that puts a space after every unique match
HandleTabAlwaysSpace(ts, fs, dir, now) ==
    LET parts == SplitSpace(ts.input)
        currentPart == parts[Len(parts)]
        matchingEntries == MatchingEntries(fs, dir, ts.input)
        partToReplaceIndex == LastSlashEnd(currentPart)
    IN IF Cardinality(matchingEntries) = 1
       THEN LET completion == CHOOSE e \in matchingEntries : TRUE
            IN [ts EXCEPT
                  !.input = JoinSpace(ReplaceLast(parts,
                               SubSeq(currentPart, 1, partToReplaceIndex) \o completion))
                            \o W(SPACE),
                  !.lastTabPressTime = 0]
       ELSE ts

\* HandleTab that shows the matches at the first press as well
HandleTabShowsAtOnce(ts, fs, dir, now) ==
    LET matchingEntries == MatchingEntries(fs, dir, ts.input)
    IN IF Cardinality(matchingEntries) > 1
       THEN [ts EXCEPT !.lastAutocompleteOutput = matchingEntries,
                       !.lastTabPressTime = now]
       ELSE [ts EXCEPT !.lastTabPressTime = 0]

\* HandleTab that leaves the timer armed when nothing matches
HandleTabKeepsTimer(ts, fs, dir, now) ==
    LET matchingEntries == MatchingEntries(fs, dir, ts.input)
    IN IF Cardinality(matchingEntries) > 1 /\ now - ts.lastTabPressTime < RepeatWindow
       THEN [ts EXCEPT !.lastAutocompleteOutput = matchingEntries,
                       !.lastTabPressTime = now]
       ELSE IF Cardinality(matchingEntries) > 1
       THEN [ts EXCEPT !.lastTabPressTime = now]
       ELSE ts

\* the Tab branch of handleInputKeydown at time now
HandleTab(ts, fs, dir, now) ==
    LET parts == SplitSpace(ts.input)
        currentPart == parts[Len(parts)]
        matchingEntries == MatchingEntries(fs, dir, ts.input)
        partToReplaceIndex == LastSlashEnd(currentPart)
    IN IF Cardinality(matchingEntries) = 1
       THEN LET completion == CHOOSE e \in matchingEntries : TRUE
                trailingChar == IF EndsWith(completion, W(SLASH)) THEN <<>> ELSE W(SPACE)
            IN [ts EXCEPT
                  !.input = JoinSpace(ReplaceLast(parts,
                               SubSeq(currentPart, 1, partToReplaceIndex) \o completion))
                            \o trailingChar,
                  !.lastTabPressTime = 0]
       ELSE IF Cardinality(matchingEntries) > 1
       THEN IF now - ts.lastTabPressTime < RepeatWindow
            THEN [ts EXCEPT !.lastAutocompleteOutput = matchingEntries,
                            !.lastTabPressTime = now]
            ELSE LET commonPrefix == findLongestCommonPrefix(matchingEntries)
                     partialName == IF IsPath(parts)
                                    THEN Substring(currentPart, LastSlashEnd(currentPart))
                                    ELSE currentPart
                 IN IF Len(commonPrefix) > Len(partialName)
                    THEN [ts EXCEPT
                            !.input = JoinSpace(ReplaceLast(parts,
                                         SubSeq(currentPart, 1, partToReplaceIndex)
                                             \o commonPrefix)),
                            !.lastTabPressTime = now]
                    ELSE [ts EXCEPT !.lastTabPressTime = now]
       ELSE [ts EXCEPT !.lastTabPressTime = 0]

\* a key that is not Tab, after its own branch: the timer is reset
HandleOtherKey(ts) == [ts EXCEPT !.lastTabPressTime = 0]

\* the Enter branch on the input box: setInput('') and the reset of the timer
HandleEnterKey(ts) == HandleOtherKey([ts EXCEPT !.input = <<>>])

\* handleInputChange: the new value, and the list shown is dropped
HandleInputChange(ts, value) ==
    [ts EXCEPT !.input = value, !.lastAutocompleteOutput = {}]

\* the atoms of a part glued into one atom
RECURSIVE Glue(_)
Glue(part) == IF Len(part) = 1 THEN part[1] ELSE part[1] \o Glue(Tail(part))

\* the words that the command handler knows as one atom
OneAtomWords ==
    { "clear", "help", "ls", "cd", "cat", "mkdir", "rm", "git", "init", "add", "commit",
      "log", "branch", "status", "checkout", "rebase", "stash" }

\* the typed part as the handler compares it: a command word is one atom
Word(part) == IF Glue(part) \in OneAtomWords THEN W(Glue(part)) ELSE part

\* input.trim().split(/\s+/): the words of the line
CommandLine(inp) ==
    LET parts == FilterNonEmpty(SplitSpace(inp))
    IN [i \in 1..Len(parts) |-> Word(parts[i])]

\* ---------------------------------------------------------------- command history
\* s.trim() on a text of characters and spaces
RECURSIVE TrimStart(_)
TrimStart(s) == IF s # <<>> /\ Head(s) = SPACE THEN TrimStart(Tail(s)) ELSE s

RECURSIVE TrimEnd(_)
TrimEnd(s) ==
    IF s # <<>> /\ s[Len(s)] = SPACE THEN TrimEnd(SubSeq(s, 1, Len(s) - 1)) ELSE s

Trim(s) == TrimEnd(TrimStart(s))

\* the text of the input box, the history and its cursor, as one record
HistoryState(inp, history, index) ==
    [input |-> inp, commandHistory |-> history, historyIndex |-> index]

\* commandHistory[i] || '' (indices from 0, as in the source)
HistoryAt(history, i) ==
    IF i >= 0 /\ i < Len(history) THEN history[i + 1] ELSE <<>>

Min(a, b) == IF a < b THEN a ELSE b
Max(a, b) == IF a > b THEN a ELSE b

\* the Enter branch: the trimmed line goes in front, the cursor is reset and,
\* after the command has run, the input box is emptied
HandleEnterHistory(hs) ==
    LET fullCommand == Trim(hs.input)
    IN HistoryState(<<>>, <<fullCommand>> \o hs.commandHistory, -1)

\* ArrowUp without the clamp at the oldest command
HandleArrowUpUnclamped(hs) ==
    IF Len(hs.commandHistory) > 0
    THEN LET newIndex == hs.historyIndex + 1
         IN HistoryState(HistoryAt(hs.commandHistory, newIndex), hs.commandHistory, newIndex)
    ELSE hs

\* the ArrowUp branch
HandleArrowUp(hs) ==
    IF Len(hs.commandHistory) > 0
    THEN LET newIndex == Min(hs.historyIndex + 1, Len(hs.commandHistory) - 1)
         IN HistoryState(HistoryAt(hs.commandHistory, newIndex), hs.commandHistory, newIndex)
    ELSE hs

\* the ArrowDown branch
HandleArrowDown(hs) ==
    IF hs.historyIndex > -1
    THEN LET newIndex == Max(hs.historyIndex - 1, -1)
         IN HistoryState(IF newIndex = -1 THEN <<>>
                                          ELSE HistoryAt(hs.commandHistory, newIndex),
                         hs.commandHistory, newIndex)
    ELSE hs

\* ---------------------------------------------------------------- inputs
AX == <<"a", SLASH, "x">>
AYZ == <<"a", SLASH, "y", SLASH, "z">>
FOO == W("foo")
FEATURE == W("feature")

\* project files of the loaded projects (README.md is added by the load); the
\* paths are VFS keys, without a leading slash
EmptyProject == EmptyMap
TreeProject == (AX :> FileEntry("x1", "javascript")) @@ (AYZ :> FileEntry("z1", "javascript"))

Contents == {"r1", "r2"}

\* arguments typed in the git sessions
LsArgs == { <<>> }
CdArgs == { <<FOO>> }
CatArgs == { <<README>> }
MkdirArgs == { <<FOO>> }
RmArgs == { <<README>> }
AddArgs == { <<W(DOT)>> }
Messages == { <<"\"", "first", "\"">>, <<"second">> }
BranchArgs == { <<FEATURE>> }
CheckoutArgs == { <<MAIN>>, <<FEATURE>> }
StashArgs == { <<>>, <<W("pop")>> }
StashAtSubCommands == { <<"stash", "@", "pop">> }

\* arguments typed in the filesystem sessions
ShellPathArgs == { <<>>, <<W("a")>>, <<FOO>>, <<README>>, <<AX>> }

\* ---------------------------------------------------------------- actions
SetTerminal(r) ==
    /\ files' = r.files
    /\ cwd' = r.cwd
    /\ isGitInitialized' = r.isGitInitialized
    /\ stagedFiles' = r.stagedFiles
    /\ commits' = r.commits
    /\ heads' = r.heads
    /\ currentBranch' = r.currentBranch
    /\ stashes' = r.stashes
    /\ output' = r.output

\* whether the output is pushed to the transcript: not null, not blank
OutputShown(out) ==
    /\ out # NullOut
    /\ ~(out.msg = "ls" /\ out.list = <<>>)
    /\ ~(out.msg = "content" /\ out.list = <<"">>)

\* the length of the transcript after a command: clear queues setLines([]),
\* then every command queues setLines(newLines) with newLines built from the
\* lines of the render, and the last queued value is the next state
NewLinesLen(len, line, out) ==
    LET newLinesLen == len + 1 + (IF OutputShown(out) THEN 1 ELSE 0)
        queued == (IF Head(line) = W("clear") THEN <<0>> ELSE <<>>) \o <<newLinesLen>>
    IN queued[Len(queued)]

\* times are kept relative to the key-press before, which is at PrevKeyTime: a
\* timer that is not 0 is the time of that key-press, since every other key
\* resets it
PrevKeyTime == 2 * RepeatWindow

\* the time from the key-press before to a Tab: inside and outside the window
Elapsed == { RepeatWindow - 1, RepeatWindow }

\* commands entered from the input box in one session
MaxEnters == 1

CurTab == TabState(input, lastTabPressTime, lastAutocompleteOutput)

SetTab(r) ==
    /\ input' = r.input
    /\ lastTabPressTime' = IF r.lastTabPressTime = 0 THEN 0 ELSE PrevKeyTime
    /\ lastAutocompleteOutput' = r.lastAutocompleteOutput

\* Enter on a non-blank line while the terminal tab is shown
EnterCommand(line) ==
    /\ activeTab = "terminal"
    /\ historyLen < MaxHistory
    /\ historyLen' = historyLen + 1
    /\ SetTerminal(RunCommand(Cur, line))
    /\ linesLen' = NewLinesLen(linesLen, line, RunCommand(Cur, line).output)
    /\ SetTab(HandleEnterKey(CurTab))
    /\ UNCHANGED <<activeTab, isDebugging, showPostDebugPrompt, pending, rInput, rResult>>

\* Enter in the sessions without recall: the cursor is -1 throughout, and of
\* the history only the length is recorded (historyLen)
Enter(line) ==
    /\ EnterCommand(line)
    /\ historyIndex' = -1
    /\ UNCHANGED commandHistory

Git(sub, args) == <<W("git"), W(sub)>> \o args

EnterClear == Enter(<<W("clear")>>)
EnterHelp == Enter(<<W("help")>>)
EnterLs == \E a \in LsArgs : Enter(<<W("ls")>> \o a)
EnterCd == \E a \in CdArgs : Enter(<<W("cd")>> \o a)
EnterCat == \E a \in CatArgs : Enter(<<W("cat")>> \o a)
EnterMkdir == \E a \in MkdirArgs : Enter(<<W("mkdir")>> \o a)
EnterRm == \E a \in RmArgs : Enter(<<W("rm")>> \o a)
EnterUnknown == Enter(<<W("foo")>>)
EnterGitInit == Enter(Git("init", <<>>))
EnterGitAdd == \E a \in AddArgs : Enter(Git("add", a))
EnterGitCommit == \E m \in Messages : Enter(Git("commit", <<W("-m"), m>>))
EnterGitLog == Enter(Git("log", <<>>))
EnterGitBranch == \E a \in BranchArgs : Enter(Git("branch", a))
EnterGitCheckout == \E a \in CheckoutArgs : Enter(Git("checkout", a))
EnterGitRebase == \E a \in CheckoutArgs : Enter(Git("rebase", a))
EnterGitStash == \E a \in StashArgs : Enter(Git("stash", a))
EnterGitStashAt == \E sub \in StashAtSubCommands : Enter(<<W("git"), sub>>)
EnterGitStatus == Enter(Git("status", <<>>))
EnterGitUnknown == Enter(Git("push", <<>>))

ShellLs == \E a \in ShellPathArgs : Enter(<<W("ls")>> \o a)
ShellCd == \E a \in ShellPathArgs : Enter(<<W("cd")>> \o a)
ShellCat == \E a \in ShellPathArgs : Enter(<<W("cat")>> \o a)
ShellMkdir == \E a \in ShellPathArgs : Enter(<<W("mkdir")>> \o a)
ShellRm == \E a \in ShellPathArgs : Enter(<<W("rm")>> \o a)

\* the terminal tab is added or selected: SimulatedTerminal mounts
OpenTerminalTab ==
    /\ activeTab # "terminal"
    /\ activeTab' = "terminal"
    /\ UNCHANGED <<files, cwd, isGitInitialized, stagedFiles, commits, heads,
                   currentBranch, stashes, output, historyLen, linesLen, isDebugging, showPostDebugPrompt, pending, commandHistory, historyIndex,
                   rInput, rResult, input, lastTabPressTime,
                   lastAutocompleteOutput>>

\* a file tab becomes active: SimulatedTerminal unmounts and its state is dropped
OpenFileTab ==
    /\ activeTab = "terminal"
    /\ activeTab' = "file"
    /\ SetTerminal(TerminalInit(files))
    /\ historyLen' = 0
    /\ linesLen' = 1
    /\ input' = <<>>
    /\ lastTabPressTime' = 0
    /\ lastAutocompleteOutput' = {}
    /\ commandHistory' = <<>>
    /\ historyIndex' = -1
    /\ UNCHANGED <<isDebugging, showPostDebugPrompt, pending, rInput, rResult>>

\* typing in the editor of the README.md tab
EditFile ==
    /\ activeTab = "file"
    /\ \E c \in Contents : files' = FileContentChange(files, README, c)
    /\ UNCHANGED <<activeTab, cwd, isGitInitialized, stagedFiles, commits, heads,
                   currentBranch, stashes, output, historyLen, linesLen, isDebugging, showPostDebugPrompt, pending, commandHistory, historyIndex,
                   rInput, rResult, input, lastTabPressTime,
                   lastAutocompleteOutput>>

InitWith(pf) ==
    /\ files = LoadProject(pf, "r1")
    /\ activeTab = "file"
    /\ cwd = ROOT
    /\ isGitInitialized = FALSE
    /\ stagedFiles = {}
    /\ commits = <<>>
    /\ heads = (MAIN :> EmptyId)
    /\ currentBranch = MAIN
    /\ stashes = <<>>
    /\ output = Out("initialOutput", <<>>, <<>>)
    /\ historyLen = 0
    /\ linesLen = 1
    /\ input = <<>>
    /\ lastTabPressTime = 0
    /\ lastAutocompleteOutput = {}
    /\ isDebugging = FALSE
    /\ showPostDebugPrompt = FALSE
    /\ pending = 0
    /\ commandHistory = <<>>
    /\ historyIndex = -1
    /\ rInput = <<>>
    /\ rResult = <<>>

\* git sessions on a project that consists of README.md
Init == InitWith(EmptyProject)

Next ==
    \/ EnterMkdir \/ EnterRm \/ EnterGitInit \/ EnterGitAdd
    \/ EnterGitCommit \/ EnterGitLog \/ EnterGitBranch \/ EnterGitCheckout
    \/ EnterGitRebase \/ EnterGitStash \/ EnterGitStashAt \/ EnterGitStatus
    \/ EnterGitUnknown \/ OpenTerminalTab \/ OpenFileTab \/ EditFile

Spec == Init /\ [][Next]_vars

\* filesystem sessions on a project with nested directories
InitShell == InitWith(TreeProject)

NextShell ==
    \/ EnterClear \/ EnterHelp \/ EnterUnknown
    \/ ShellLs \/ ShellCd \/ ShellCat \/ ShellMkdir \/ ShellRm
    \/ OpenTerminalTab \/ OpenFileTab \/ EditFile

SpecShell == InitShell /\ [][NextShell]_vars

\* ---------------------------------------------------------------- editor and debugger
StudioFile(p, c) == [path |-> p, language |-> "javascript", content |-> c]

\* the fixedFiles arrays of the debugger responses
FixedFilesSets ==
    { <<>>, <<StudioFile(AX, "x2")>>,
      <<StudioFile(README, "r2"), StudioFile(W("b"), "b1"), StudioFile(README, "r3")>> }

\* the number of requests in flight the sessions go up to
MaxRequests == 2

\* handleRunDebugger up to the await: the flag is raised and a request is sent
StartRequest ==
    /\ pending < MaxRequests
    /\ isDebugging' = TRUE
    /\ pending' = pending + 1

\* "Run AI Debugger" of the add menu is activated; the button is disabled while
\* isDebugging is set, and nothing about it depends on the post-fix prompt
RunDebugger ==
    /\ ~isDebugging
    /\ StartRequest
    /\ UNCHANGED <<files, activeTab, cwd, isGitInitialized, stagedFiles, commits, heads,
                   currentBranch, stashes, output, historyLen, linesLen, showPostDebugPrompt,
                   commandHistory, historyIndex, rInput, rResult,
                   input, lastTabPressTime, lastAutocompleteOutput>>

\* "Re-run Debugger" of the post-fix prompt: hides the prompt and calls
\* handleRunDebugger, whatever isDebugging is
RerunDebugger ==
    /\ showPostDebugPrompt
    /\ showPostDebugPrompt' = FALSE
    /\ StartRequest
    /\ UNCHANGED <<files, activeTab, cwd, isGitInitialized, stagedFiles, commits, heads,
                   currentBranch, stashes, output, historyLen, linesLen,
                   commandHistory, historyIndex, rInput, rResult,
                   input, lastTabPressTime, lastAutocompleteOutput>>

\* the close button of the post-fix prompt
ClosePrompt ==
    /\ showPostDebugPrompt
    /\ showPostDebugPrompt' = FALSE
    /\ UNCHANGED <<files, activeTab, cwd, isGitInitialized, stagedFiles, commits, heads,
                   currentBranch, stashes, output, historyLen, linesLen, isDebugging, pending,
                   commandHistory, historyIndex, rInput, rResult,
                   input, lastTabPressTime, lastAutocompleteOutput>>

\* a request settles with a fixedFiles array: the fixes are written, the prompt
\* is shown, and the finally block lowers the flag
DebuggerResponse ==
    /\ pending > 0
    /\ \E fixedFiles \in FixedFilesSets : files' = FixUpsert(files, fixedFiles)
    /\ showPostDebugPrompt' = TRUE
    /\ isDebugging' = FALSE
    /\ pending' = pending - 1
    /\ UNCHANGED <<activeTab, cwd, isGitInitialized, stagedFiles, commits, heads,
                   currentBranch, stashes, output, historyLen, linesLen,
                   commandHistory, historyIndex, rInput, rResult,
                   input, lastTabPressTime, lastAutocompleteOutput>>

\* a request fails, or its response holds no fixedFiles array: only the finally
\* block acts
DebuggerFails ==
    /\ pending > 0
    /\ isDebugging' = FALSE
    /\ pending' = pending - 1
    /\ UNCHANGED <<files, activeTab, cwd, isGitInitialized, stagedFiles, commits, heads,
                   currentBranch, stashes, output, historyLen, linesLen, showPostDebugPrompt,
                   commandHistory, historyIndex, rInput, rResult,
                   input, lastTabPressTime, lastAutocompleteOutput>>

StudioCatArgs == { <<README>>, <<AX>>, <<W("b")>> }
StudioRmArgs == { <<README>>, <<AX>> }

StudioCat == \E a \in StudioCatArgs : Enter(<<W("cat")>> \o a)
StudioRm == \E a \in StudioRmArgs : Enter(<<W("rm")>> \o a)

StudioProject == (AX :> FileEntry("x1", "javascript"))

\* editor, debugger and terminal reads on a project with one source file
InitStudio == InitWith(StudioProject)

NextStudio ==
    \/ EditFile \/ RunDebugger \/ DebuggerResponse \/ DebuggerFails
    \/ RerunDebugger \/ ClosePrompt
    \/ OpenTerminalTab \/ OpenFileTab \/ StudioCat \/ StudioRm
    \/ EnterLs \/ EnterCd \/ EnterCat

SpecStudio == InitStudio /\ [][NextStudio]_vars

\* ---------------------------------------------------------------- resolvePath alone
Segments == { DOTDOT, W(DOT), W("a"), W("b"), W("x"), <<>> }

\* inputs of at most MaxSegs segments separated by '/', relative and absolute
ResolveInputs ==
    LET segSeqs == UNION { [1..k -> Segments] : k \in 0..MaxSegs }
    IN { Join(ss) : ss \in segSeqs } \cup { W(SLASH) \o Join(ss) : ss \in segSeqs }

\* number of segments of an absolute path
Depth(path) == Len(FilterNonEmpty(Split(path)))

\* resolvePath is applied to an input in the current directory, once per directory
ResolveApply ==
    /\ rResult = <<>>
    /\ \E inp \in ResolveInputs :
         /\ rInput' = inp
         /\ rResult' = resolvePath(cwd, inp)
    /\ UNCHANGED <<files, activeTab, cwd, isGitInitialized, stagedFiles, commits, heads,
                   currentBranch, stashes, output, historyLen, linesLen, isDebugging, showPostDebugPrompt, pending, commandHistory, historyIndex,
                   input, lastTabPressTime, lastAutocompleteOutput>>

\* setCwd(targetPath), as cd does with the resolved path of a directory
ResolveCd ==
    /\ rResult # <<>>
    /\ Depth(rResult) <= MaxDepth
    /\ cwd' = rResult
    /\ rInput' = <<>>
    /\ rResult' = <<>>
    /\ UNCHANGED <<files, activeTab, isGitInitialized, stagedFiles, commits, heads,
                   currentBranch, stashes, output, historyLen, linesLen, isDebugging, showPostDebugPrompt, pending, commandHistory, historyIndex,
                   input, lastTabPressTime, lastAutocompleteOutput>>

NextResolve == ResolveApply \/ ResolveCd

SpecResolve == Init /\ [][NextResolve]_vars

\* ---------------------------------------------------------------- input box and completion
SRC == <<"s", "rc">>
INDEXJS == <<"i", "ndex.js">>
APPJS == <<"a", "pp.js">>

\* the project of the completion sessions: src/index.js and src/app.js
TabProject ==
    (SRC \o W(SLASH) \o INDEXJS) :> FileEntry("i1", "javascript")
    @@ (SRC \o W(SLASH) \o APPJS) :> FileEntry("a1", "javascript")

\* the lines the user means to type, key by key
TypedLines ==
    { <<"c", "l", "e", "a", "r">>,
      <<"c", "x">>,
      <<"c", "a", "t", SPACE>> \o SRC \o <<SLASH, "i">>,
      <<"c", "a", "t", SPACE, "foo", SLASH>>,
      <<"g", "i", "t", SPACE, "s", "t", "a", "t">>,
      <<"m", "k", "d", "i", "r", SPACE, "foo">> }

TypedKeys == UNION { { line[i] : i \in 1..Len(line) } : line \in TypedLines }

\* a character key: keydown resets the timer, then the change event fires
TypeKey ==
    /\ activeTab = "terminal"
    /\ \E a \in TypedKeys :
          /\ \E line \in TypedLines : StartsWith(line, Append(input, a))
          /\ SetTab(HandleInputChange(HandleOtherKey(CurTab), Append(input, a)))
    /\ UNCHANGED <<files, activeTab, cwd, isGitInitialized, stagedFiles, commits, heads,
                   currentBranch, stashes, output, historyLen, linesLen, isDebugging, showPostDebugPrompt, pending, commandHistory, historyIndex,
                   rInput, rResult>>

\* the Tab key
PressTab ==
    /\ activeTab = "terminal"
    /\ \E elapsed \in Elapsed :
          SetTab(HandleTab(CurTab, files, cwd, PrevKeyTime + elapsed))
    /\ UNCHANGED <<files, activeTab, cwd, isGitInitialized, stagedFiles, commits, heads,
                   currentBranch, stashes, output, historyLen, linesLen, isDebugging, showPostDebugPrompt, pending, commandHistory, historyIndex,
                   rInput, rResult>>

\* a key with no branch of its own that leaves the text as it is, or Enter on
\* a blank line
PressOtherKey ==
    /\ activeTab = "terminal"
    /\ SetTab(HandleOtherKey(CurTab))
    /\ UNCHANGED <<files, activeTab, cwd, isGitInitialized, stagedFiles, commits, heads,
                   currentBranch, stashes, output, historyLen, linesLen, isDebugging, showPostDebugPrompt, pending, commandHistory, historyIndex,
                   rInput, rResult>>

\* Enter on the text of the input box
PressEnter ==
    /\ historyLen < MaxEnters
    /\ CommandLine(input) # <<>>
    /\ Enter(CommandLine(input))

InitTab == InitWith(TabProject)

NextTab ==
    \/ TypeKey
    \/ PressTab
    \/ PressOtherKey
    \/ PressEnter
    \/ OpenTerminalTab
    \/ OpenFileTab

SpecTab == InitTab /\ [][NextTab]_vars

\* ---------------------------------------------------------------- recall of commands
\* the number of commands submitted in the recall sessions
MaxRecall == 3

\* values of the input box: commands, one with a space after it, and a blank
RecallTexts ==
    { <<"l", "s">>, <<"h", "e", "l", "p">>, <<"l", "s", SPACE>>, <<SPACE>> }

CurHistory == HistoryState(input, commandHistory, historyIndex)

\* the change event with a new value of the input box
RecallType ==
    /\ activeTab = "terminal"
    /\ \E v \in RecallTexts : SetTab(HandleInputChange(HandleOtherKey(CurTab), v))
    /\ UNCHANGED <<files, activeTab, cwd, isGitInitialized, stagedFiles, commits, heads,
                   currentBranch, stashes, output, historyLen, linesLen, isDebugging,
                   showPostDebugPrompt, pending, commandHistory, historyIndex,
                   rInput, rResult>>

\* Enter on a text that is not blank, with the history recorded
RecallEnter ==
    /\ Trim(input) # <<>>
    /\ historyLen < MaxRecall
    /\ EnterCommand(CommandLine(input))
    /\ commandHistory' = HandleEnterHistory(CurHistory).commandHistory
    /\ historyIndex' = HandleEnterHistory(CurHistory).historyIndex

\* the ArrowUp key, and the reset of the timer that follows every key but Tab
PressArrowUp ==
    /\ activeTab = "terminal"
    /\ input' = HandleArrowUp(CurHistory).input
    /\ historyIndex' = HandleArrowUp(CurHistory).historyIndex
    /\ lastTabPressTime' = 0
    /\ UNCHANGED <<files, activeTab, cwd, isGitInitialized, stagedFiles, commits, heads,
                   currentBranch, stashes, output, historyLen, linesLen, isDebugging,
                   showPostDebugPrompt, pending, commandHistory, rInput, rResult,
                   lastAutocompleteOutput>>

\* the ArrowDown key
PressArrowDown ==
    /\ activeTab = "terminal"
    /\ input' = HandleArrowDown(CurHistory).input
    /\ historyIndex' = HandleArrowDown(CurHistory).historyIndex
    /\ lastTabPressTime' = 0
    /\ UNCHANGED <<files, activeTab, cwd, isGitInitialized, stagedFiles, commits, heads,
                   currentBranch, stashes, output, historyLen, linesLen, isDebugging,
                   showPostDebugPrompt, pending, commandHistory, rInput, rResult,
                   lastAutocompleteOutput>>

NextRecall ==
    \/ RecallType \/ RecallEnter \/ PressArrowUp \/ PressArrowDown
    \/ OpenTerminalTab \/ OpenFileTab

SpecRecall == Init /\ [][NextRecall]_vars

\* ---------------------------------------------------------------- properties
Run(st, line) == RunCommand(st, line)

RECURSIVE RunAll(_, _)
RunAll(st, lines) ==
    IF lines = <<>> THEN st ELSE RunAll(Run(st, Head(lines)), Tail(lines))

InTerminal == activeTab = "terminal"

\* C1: with a head commit and a difference between the working files and its
\* snapshot, git stash followed by git stash pop leaves the working files, the
\* staging set and the stash stack as they were before the stash.
C1_StashRoundTrip ==
    (InTerminal /\ getHeadCommit(Cur) # 0 /\ files # HeadFiles(Cur)) =>
        LET s2 == RunAll(Cur, <<Git("stash", <<>>), Git("stash", <<W("pop")>>)>>)
        IN /\ s2.files = files
           /\ s2.stagedFiles = stagedFiles
           /\ s2.stashes = stashes

\* the command sequences that change the working files before a commit
ChangeSeqs ==
    { <<>>, << <<W("mkdir"), FOO>> >>, << <<W("rm"), README>> >> }

CommitLines(m) == <<Git("add", <<W(DOT)>>), Git("commit", <<W("-m"), m>>)>>

\* the rebase scenario run from st: the states after branch feature, after the
\* commit on main, after the commit on feature, and after rebase main
RebaseScenario(st, ch1, ch2) ==
    LET s1 == Run(st, Git("branch", <<FEATURE>>))
        s3 == RunAll(s1, ch1 \o CommitLines(<<"\"", "first", "\"">>))
        s4 == Run(s3, Git("checkout", <<FEATURE>>))
        s6 == RunAll(s4, ch2 \o CommitLines(<<"second">>))
        s7 == Run(s6, Git("rebase", <<MAIN>>))
    IN [branched |-> s1, onMain |-> s3, onFeature |-> s6, rebased |-> s7,
        happened |-> /\ Len(s3.commits) = Len(st.commits) + 1
                     /\ Len(s6.commits) = Len(s3.commits) + 1]

\* the states the scenario starts from: on main, before feature exists
ScenarioStart ==
    /\ InTerminal
    /\ isGitInitialized
    /\ currentBranch = MAIN
    /\ FEATURE \notin DOMAIN heads

Last(seq) == seq[Len(seq)]

\* snapshot with the changes that lead from base to changed applied to onto
ApplyChanges(onto, base, changed) ==
    LET touched == { p \in DOMAIN base \cup DOMAIN changed :
                       \/ p \notin DOMAIN base
                       \/ p \notin DOMAIN changed
                       \/ base[p] # changed[p] }
        keys == (DOMAIN onto \ touched) \cup (touched \cap DOMAIN changed)
    IN [p \in keys |-> IF p \in touched THEN changed[p] ELSE onto[p]]

\* C2: in the rebase scenario the snapshot of the new head of feature is the
\* snapshot of C1 with the changes of C2 applied: paths C2 did not change carry
\* the content of C1, paths C2 changed carry the content of C2.
C2_RebaseSnapshot ==
    ScenarioStart =>
        \A ch1 \in ChangeSeqs, ch2 \in ChangeSeqs :
            LET sc == RebaseScenario(Cur, ch1, ch2)
                c1 == Last(sc.onMain.commits)
                c2 == Last(sc.onFeature.commits)
                base == CommitFiles(sc.branched.commits, sc.branched.heads[FEATURE])
            IN sc.happened =>
                 CommitFiles(sc.rebased.commits, sc.rebased.heads[FEATURE])
                     = ApplyChanges(c1.files, base, c2.files)

\* C3: in the rebase scenario the head of feature is a new commit with the
\* message of C2 and C1 as its parent, log lists it first and C1 after it
\* (two commits when main had no commit before C1), and C1 keeps its id.
C3_RebaseHistory ==
    ScenarioStart =>
        \A ch1 \in ChangeSeqs, ch2 \in ChangeSeqs :
            LET sc == RebaseScenario(Cur, ch1, ch2)
                c1 == Last(sc.onMain.commits)
                c2 == Last(sc.onFeature.commits)
                after == sc.rebased
                newHead == after.commits[FindCommit(after.commits, after.heads[FEATURE])]
                log == Run(after, Git("log", <<>>)).output
            IN sc.happened =>
                 /\ after.currentBranch = FEATURE
                 /\ FindCommit(after.commits, after.heads[FEATURE]) # 0
                 /\ \A i \in 1..Len(sc.onFeature.commits) :
                        sc.onFeature.commits[i].id # newHead.id
                 /\ newHead.message = c2.message
                 /\ newHead.parentId = c1.id
                 /\ after.heads[MAIN] = c1.id
                 /\ SubSeq(after.commits, 1, Len(sc.onFeature.commits))
                        = sc.onFeature.commits
                 /\ log.msg = "log"
                 /\ Len(log.list) >= 2
                 /\ log.list[1].id = newHead.id
                 /\ log.list[2].id = c1.id
                 /\ (heads[MAIN] = EmptyId => Len(log.list) = 2)

\* a state right after the rebase of the scenario, begun in an empty repository
C3_Witness ==
    /\ output.msg = "Successfully rebased and updated"
    /\ currentBranch = FEATURE
    /\ Len(commits) = 3
    /\ commits[1].parentId = NullId
    /\ commits[2].parentId = NullId
    /\ heads[MAIN] = commits[1].id
    /\ heads[FEATURE] = commits[3].id
    /\ commits[3].parentId = commits[1].id
    /\ commits[3].message = commits[2].message
    /\ commits[2].message # commits[1].message

\* C4: for branches A and B with different heads, checkout B then checkout A
\* leaves the working files equal to the snapshot of the head of A (no file
\* when A has no commit) and A the current branch, whatever the working files
\* held before.
C4_CheckoutRoundTrip ==
    InTerminal =>
        \A A \in DOMAIN heads, B \in DOMAIN heads :
            heads[A] # heads[B] =>
                LET s2 == RunAll(Cur, <<Git("checkout", <<B>>), Git("checkout", <<A>>)>>)
                IN /\ s2.files = CommitFiles(commits, heads[A])
                   /\ s2.currentBranch = A
                   /\ s2.commits = commits
                   /\ s2.heads = heads

\* a state right after a checkout of a branch whose head differs from another
\* branch's, the snapshot of which lacks a path of the other snapshot
C4_Witness ==
    /\ output.msg = "Switched to branch"
    /\ output.arg = currentBranch
    /\ \E B \in DOMAIN heads :
         /\ heads[B] # heads[currentBranch]
         /\ heads[B] # EmptyId
         /\ DOMAIN CommitFiles(commits, heads[B]) # DOMAIN files
    /\ files = CommitFiles(commits, heads[currentBranch])

NothingToCommit == "nothing to commit, working tree clean"

\* C5 as stated: whenever the staging set is empty, git commit -m <msg>
\* outputs "nothing to commit", adds no commit and moves no branch head.
C5_CommitEmptyStagingAsStated ==
    (InTerminal /\ stagedFiles = {}) =>
        \A m \in Messages :
            LET r == Run(Cur, Git("commit", <<W("-m"), m>>))
            IN /\ r.output.msg = NothingToCommit
               /\ r.commits = commits
               /\ r.heads = heads

\* C5: in an initialized repository, whenever the staging set is empty, git
\* commit -m <msg> outputs "nothing to commit", adds no commit and moves no
\* branch head, also when it is repeated.
C5_CommitEmptyStaging ==
    (InTerminal /\ isGitInitialized /\ stagedFiles = {}) =>
        \A m \in Messages, m2 \in Messages :
            LET r == Run(Cur, Git("commit", <<W("-m"), m>>))
                r2 == Run(r, Git("commit", <<W("-m"), m2>>))
            IN /\ r.output.msg = NothingToCommit
               /\ r.commits = commits
               /\ r.heads = heads
               /\ r.stagedFiles = {}
               /\ r2.output.msg = NothingToCommit
               /\ r2.commits = commits
               /\ r2.heads = heads

\* a state right after a commit with nothing staged, on a branch with a head
C5_Witness ==
    /\ output.msg = NothingToCommit
    /\ isGitInitialized
    /\ stagedFiles = {}
    /\ heads[currentBranch] # EmptyId

FirstLines ==
    <<Git("init", <<>>), Git("add", <<W(DOT)>>),
      Git("commit", <<W("-m"), <<"\"", "first", "\"">>>>), Git("log", <<>>)>>

\* C6: from an uninitialized repository over files that contain README.md,
\* git init, git add ., git commit -m "first", git log ends with a log of
\* exactly one commit, with message first, that is the current branch head.
C6_EndToEnd ==
    (InTerminal /\ ~isGitInitialized /\ README \in DOMAIN files) =>
        LET s == RunAll(Cur, FirstLines)
        IN /\ s.output.msg = "log"
           /\ Len(s.output.list) = 1
           /\ s.output.list[1].message = W("first")
           /\ s.output.list[1].id = s.heads[s.currentBranch]
           /\ Len(s.commits) = 1
           /\ s.commits[1].id = s.heads[s.currentBranch]
           /\ README \in DOMAIN s.commits[1].files

\* the state after exactly the four commands in a new terminal
C6_Witness ==
    /\ historyLen = 4
    /\ output.msg = "log"
    /\ Len(output.list) = 1
    /\ output.list[1].message = W("first")
    /\ Len(commits) = 1
    /\ heads[currentBranch] = commits[1].id
    /\ README \in DOMAIN files

UnderA == <<"a", SLASH>>

\* C7: with the keys a/x and a/y/z, rm a issued from the root removes every
\* key at or under a/ and leaves every other key unchanged.
C7_RmRecursive ==
    (InTerminal /\ cwd = ROOT /\ AX \in DOMAIN files /\ AYZ \in DOMAIN files) =>
        LET r == Run(Cur, <<W("rm"), W("a")>>)
        IN /\ \A p \in DOMAIN r.files : ~StartsWith(p, UnderA)
           /\ \A p \in DOMAIN files :
                ~StartsWith(p, UnderA) => (p \in DOMAIN r.files /\ r.files[p] = files[p])

\* names given to mkdir
DirNames == { FOO, W("a"), W("b"), README }

MkdirSucceeds(st, n) == Run(st, <<W("mkdir"), n>>).output = NullOut

\* C8: after a successful mkdir foo, isDirectory of the resolved path of foo
\* is true, cd foo changes cwd to it and ls foo finds the directory.
C8_MkdirMakesDirectory ==
    InTerminal =>
        \A n \in DirNames :
            LET r == Run(Cur, <<W("mkdir"), n>>)
                target == resolvePath(cwd, n)
            IN MkdirSucceeds(Cur, n) =>
                 /\ isDirectory(r.files, target)
                 /\ Run(r, <<W("cd"), n>>).cwd = target
                 /\ Run(r, <<W("ls"), n>>).output.msg # "ls: No such file or directory"

Count(seq, x) == Cardinality({ i \in 1..Len(seq) : seq[i] = x })

\* C9: after a successful mkdir foo in directory d, ls of d lists foo/ exactly
\* once, without duplicates and in lexical order.
C9_LsListsNewDirectory ==
    InTerminal =>
        \A n \in DirNames, lsArgs \in { <<>>, <<W(DOT)>>, <<cwd>> } :
            LET r == Run(Cur, <<W("mkdir"), n>>)
                l == Run(r, <<W("ls")>> \o lsArgs).output
            IN MkdirSucceeds(Cur, n) =>
                 /\ l.msg = "ls"
                 /\ Count(l.list, n \o W(SLASH)) = 1
                 /\ \A i \in 1..(Len(l.list) - 1) : StrLess(l.list[i], l.list[i + 1])

\* a state right after ls in a directory where mkdir foo has succeeded
C9_Witness ==
    /\ output.msg = "ls"
    /\ (FOO \o W(SLASH) \o GITKEEP) \in DOMAIN files
    /\ Count(output.list, FOO \o W(SLASH)) = 1
    /\ Len(output.list) >= 3

\* an absolute path without empty, '.' or '..' segments
WellFormedPath(p) ==
    /\ p # <<>>
    /\ Head(p) = SLASH
    /\ \/ p = ROOT
       \/ \A i \in 1..Len(Split(Tail(p))) :
            Split(Tail(p))[i] \notin { <<>>, W(DOT), DOTDOT }

OnlyDotDots(inp) ==
    /\ inp # <<>>
    /\ \A i \in 1..Len(Split(inp)) : Split(inp)[i] \in { <<>>, DOTDOT }

AB == <<SLASH, "a", SLASH, "b">>
UpUpX == <<DOT, DOT, SLASH, DOT, DOT, SLASH, "x">>

\* C10: resolvePath returns an absolute path with no '.', '..' or empty
\* segment; '..' repeated at the root gives '/'; an empty input gives cwd;
\* ../../x in /a/b gives /x.
C10_ResolveStaysUnderRoot ==
    rResult # <<>> =>
        /\ WellFormedPath(rResult)
        /\ (cwd = ROOT /\ OnlyDotDots(rInput)) => rResult = ROOT
        /\ rInput = <<>> => rResult = cwd
        /\ (cwd = AB /\ rInput = UpUpX) => rResult = <<SLASH, "x">>

\* ../../x has been resolved in /a/b
C10_Witness ==
    /\ cwd = AB
    /\ rInput = UpUpX
    /\ rResult = <<SLASH, "x">>

\* commands run between a write and the read, none of which removes a path
KeepingLines == { <<>>, << <<W("ls")>> >>, << <<W("mkdir"), W("c")>>, <<W("help")>> >> }

WrittenContents == { "r2", "w1", "" }

Cat(p) == <<W("cat"), p>>

\* the last content a fixedFiles array gives the path p
RECURSIVE FixedContent(_, _, _)
FixedContent(fixedFiles, p, c) ==
    IF fixedFiles = <<>> THEN c
    ELSE FixedContent(Tail(fixedFiles), p,
                      IF Head(fixedFiles).path = p THEN Head(fixedFiles).content ELSE c)

FixedPaths(fixedFiles) == { fixedFiles[i].path : i \in 1..Len(fixedFiles) }

\* the terminal that a state shows, or mounts when its tab is opened, over fs
TerminalOver(fs) ==
    IF activeTab = "terminal" THEN [Cur EXCEPT !.files = fs] ELSE TerminalInit(fs)

\* C11: after the editor writes content c to an existing path p, or a debugger
\* response sets p to c, cat p prints c when no command in between removes p.
C11_WriteReadRoundTrip ==
    /\ activeTab = "file" =>
         \A p \in DOMAIN files, c \in WrittenContents, mid \in KeepingLines :
             LET st == TerminalOver(FileContentChange(files, p, c))
             IN RunAll(st, mid \o <<Cat(p)>>).output = Out("content", <<>>, <<c>>)
    /\ isDebugging =>
         \A fixedFiles \in FixedFilesSets, mid \in KeepingLines :
             \A p \in FixedPaths(fixedFiles) :
                 LET st == TerminalOver(FixUpsert(files, fixedFiles))
                 IN RunAll(st, mid \o <<Cat(p)>>).output
                        = Out("content", <<>>, <<FixedContent(fixedFiles, p, "")>>)

\* cat has printed, in the terminal, what the editor wrote to README.md and
\* what a debugger response wrote to b
C11_Witness ==
    /\ activeTab = "terminal"
    /\ output = Out("content", <<>>, <<"b1">>)
    /\ files[README].content = "r2"
    /\ historyLen >= 1

\* C12: with a non-empty staging set, git commit -m <msg> appends exactly one
\* commit with a new id, the previous head of the current branch as parent
\* (null when there was none) and the parent's snapshot with every staged path
\* taken from the working files or removed; the current branch's head becomes
\* the new id, the other heads stay, and the staging set is emptied.
C12_SuccessfulCommit ==
    (InTerminal /\ isGitInitialized /\ stagedFiles # {}) =>
        \A msg \in Messages :
            LET r == Run(Cur, Git("commit", <<W("-m"), msg>>))
                new == Last(r.commits)
                parent == CommitFiles(commits, heads[currentBranch])
            IN /\ Len(r.commits) = Len(commits) + 1
               /\ SubSeq(r.commits, 1, Len(commits)) = commits
               /\ \A i \in 1..Len(commits) : commits[i].id # new.id
               /\ new.parentId = IF heads[currentBranch] = EmptyId THEN NullId
                                 ELSE heads[currentBranch]
               /\ DOMAIN new.files = (DOMAIN parent \ stagedFiles)
                                        \cup (stagedFiles \cap DOMAIN files)
               /\ \A p \in DOMAIN new.files :
                    new.files[p] = IF p \in stagedFiles THEN files[p] ELSE parent[p]
               /\ r.heads[currentBranch] = new.id
               /\ DOMAIN r.heads = DOMAIN heads
               /\ \A b \in DOMAIN heads \ {currentBranch} : r.heads[b] = heads[b]
               /\ r.stagedFiles = {}

\* a second commit has been made on a branch, with README.md staged for
\* removal: the new commit has the first as parent and no README.md
C12_Witness ==
    /\ output.msg = "committed"
    /\ Len(commits) = 2
    /\ commits[2].parentId = commits[1].id
    /\ heads[currentBranch] = commits[2].id
    /\ README \in DOMAIN commits[1].files
    /\ README \notin DOMAIN commits[2].files
    /\ stagedFiles = {}

\* branch names given to checkout: two that may be in the table, one that is not
CheckoutNames == { MAIN, FEATURE, W("nope") }

\* the snapshot of the commit with the given id, looked up in the list
SnapshotOf(cs, id) ==
    IF id = EmptyId THEN EmptyMap
    ELSE (CHOOSE c \in { cs[i] : i \in 1..Len(cs) } : c.id = id).files

\* C13: git checkout b for a branch b of the branch table makes b current,
\* replaces the working files by the snapshot of b's head (no file when the
\* head is the empty string) and empties the staging set, with commits, heads
\* and stashes unchanged; for another name the current branch, the working
\* files and the staging set stay as they are.
C13_Checkout ==
    (InTerminal /\ isGitInitialized) =>
        \A b \in CheckoutNames :
            LET r == Run(Cur, Git("checkout", <<b>>))
            IN IF b \in DOMAIN heads
               THEN /\ r.currentBranch = b
                    /\ r.files = SnapshotOf(commits, heads[b])
                    /\ r.stagedFiles = {}
                    /\ r.commits = commits
                    /\ r.heads = heads
                    /\ r.stashes = stashes
               ELSE /\ r.currentBranch = currentBranch
                    /\ r.files = files
                    /\ r.stagedFiles = stagedFiles
                    /\ r.output.msg = "error: pathspec did not match"

\* a checkout has moved from a branch with commits to a branch whose head is
\* the empty string: no working file is left
C13_Witness ==
    /\ output.msg = "Switched to branch"
    /\ output.arg = currentBranch
    /\ heads[currentBranch] = EmptyId
    /\ files = EmptyMap
    /\ stagedFiles = {}
    /\ Len(commits) >= 1
    /\ \E b \in DOMAIN heads : heads[b] # EmptyId

\* C13 as stated: git checkout b for a branch b of the branch table makes b
\* current, replaces the working files by the snapshot of b's head and empties
\* the staging set, in every state of the terminal.
C13_CheckoutAsStated ==
    InTerminal =>
        \A b \in CheckoutNames :
            LET r == Run(Cur, Git("checkout", <<b>>))
            IN b \in DOMAIN heads =>
                 /\ r.currentBranch = b
                 /\ r.files = SnapshotOf(commits, heads[b])
                 /\ r.stagedFiles = {}

\* C14: after git init, run in any state, the commit list is empty, the branch
\* table is exactly main with the empty string as head, main is current, and
\* the staging set and the stash stack are empty.
C14_InitResets ==
    InTerminal =>
        LET r == Run(Cur, Git("init", <<>>))
        IN /\ r.commits = <<>>
           /\ r.heads = (MAIN :> EmptyId)
           /\ r.currentBranch = MAIN
           /\ r.stagedFiles = {}
           /\ r.stashes = <<>>

CommitIds(cs) == { cs[i].id : i \in 1..Len(cs) }

\* C15: in every reachable state the current branch is a key of the branch
\* table, and every head of the table is the empty string or the id of a
\* commit of the commit list.
C15_BranchTable ==
    /\ currentBranch \in DOMAIN heads
    /\ \A b \in DOMAIN heads : heads[b] = EmptyId \/ heads[b] \in CommitIds(commits)

\* two branches with different commits as heads, right after a rebase
C15_Witness ==
    /\ output.msg = "Successfully rebased and updated"
    /\ DOMAIN heads = { MAIN, FEATURE }
    /\ heads[MAIN] \in CommitIds(commits)
    /\ heads[FEATURE] \in CommitIds(commits)
    /\ heads[MAIN] # heads[FEATURE]

\* a step that submits git init
ReInitStep ==
    /\ historyLen' = historyLen + 1
    /\ output'.msg = "Initialized empty Git repository."

\* C16: while the terminal is shown and the repository is not initialized
\* again, every step leaves each commit of the list as it is, with its id,
\* message, parentId and snapshot, and only appends commits with new ids.
C16_CommitsImmutable ==
    [][(activeTab = "terminal" /\ activeTab' = "terminal" /\ ~ReInitStep) =>
          /\ Len(commits') >= Len(commits)
          /\ SubSeq(commits', 1, Len(commits)) = commits
          /\ \A j \in (Len(commits) + 1)..Len(commits') :
                commits'[j].id \notin CommitIds(commits)]_vars

\* a rebase has appended a copy of a commit, and the original is still in the
\* list with its own id and parent
C16_Witness ==
    /\ output.msg = "Successfully rebased and updated"
    /\ \E i \in 1..Len(commits), j \in 1..Len(commits) :
         /\ i < j
         /\ commits[i].message = commits[j].message
         /\ commits[i].files = commits[j].files
         /\ commits[i].id # commits[j].id
         /\ commits[i].parentId # commits[j].parentId
         /\ heads[currentBranch] = commits[j].id

\* git command lines with a subcommand other than init, and git alone
NonInitGitLines ==
    { <<W("git")>>, Git("add", <<W(DOT)>>), Git("commit", <<W("-m"), <<"second">>>>),
      Git("log", <<>>), Git("branch", <<FEATURE>>), Git("checkout", <<MAIN>>),
      Git("rebase", <<MAIN>>), Git("stash", <<>>), Git("stash", <<W("pop")>>),
      Git("status", <<>>), Git("push", <<>>), <<W("git"), <<"stash", "@", "pop">>>> }

\* C17: while the repository is not initialized, every git command with a
\* subcommand other than init, git alone included, outputs "fatal: not a git
\* repository" and leaves the working files, cwd, commits, branch table,
\* current branch, staging set and stash stack unchanged.
C17_GitNeedsInit ==
    (InTerminal /\ ~isGitInitialized) =>
        \A line \in NonInitGitLines :
            Run(Cur, line) = [Cur EXCEPT !.output = Out("fatal: not a git repository", <<>>, <<>>)]

\* a git command has been refused in a terminal without repository
C17_Witness ==
    /\ ~isGitInitialized
    /\ output.msg = "fatal: not a git repository"
    /\ historyLen >= 1
    /\ commits = <<>>

\* whether some key of fs lies under the absolute path
KeyUnder(fs, path) ==
    \E k \in DOMAIN fs : StartsWith(k, Substring(path, 1) \o W(SLASH))

CdArgsTried == { W("a"), <<"a", SLASH, "y">>, FOO, README, DOTDOT, <<SLASH, "a">> }

\* C18: cd p sets cwd to the resolved path of p whenever that path is the root
\* or some key lies under it; otherwise it outputs cd: p: No such file or
\* directory and leaves cwd unchanged.
C18_CdToDirectory ==
    InTerminal =>
        \A p \in CdArgsTried :
            LET target == resolvePath(cwd, p)
                r == Run(Cur, <<W("cd"), p>>)
            IN IF target = ROOT \/ KeyUnder(files, target)
               THEN r.cwd = target
               ELSE /\ r.cwd = cwd
                    /\ r.output = Out("cd: No such file or directory", p, <<>>)

MkdirArgsTried == { W("a"), <<"a", SLASH, "y">>, FOO, README, AX, W("b") }

\* C19: mkdir p answers File exists and leaves the files unchanged whenever
\* the resolved path of p is a directory (some key lies under it) or a file key
\* equal to that path exists; in every other case it adds the one key
\* <path>/.gitkeep with empty content and changes no other key.
C19_MkdirExists ==
    InTerminal =>
        \A p \in MkdirArgsTried :
            LET target == resolvePath(cwd, p)
                pathKey == Substring(target, 1)
                r == Run(Cur, <<W("mkdir"), p>>)
            IN IF target = ROOT \/ KeyUnder(files, target) \/ pathKey \in DOMAIN files
               THEN /\ r.files = files
                    /\ r.output = Out("mkdir: File exists", p, <<>>)
               ELSE /\ DOMAIN r.files = DOMAIN files \cup { pathKey \o W(SLASH) \o GITKEEP }
                    /\ r.files[pathKey \o W(SLASH) \o GITKEEP].content = ""
                    /\ \A k \in DOMAIN files : r.files[k] = files[k]

\* command lines other than clear
AppendingLines ==
    { <<W("help")>>, <<W("ls")>>, <<W("cd"), FOO>>, <<W("mkdir"), W("b")>>,
      <<W("cat"), README>>, <<W("rm"), README>>, <<W("foo")>>, Git("status", <<>>) }

\* C20: after clear the transcript holds none of the entries it held before
\* and no output entry for clear, so at most the echo of clear; every other
\* command only appends to the transcript.
C20_ClearEmptiesTranscript ==
    InTerminal =>
        /\ NewLinesLen(linesLen, <<W("clear")>>, Run(Cur, <<W("clear")>>).output) <= 1
        /\ \A line \in AppendingLines :
             NewLinesLen(linesLen, line, Run(Cur, line).output) >= linesLen

AddNames == { W(DOT), README, FOO, W("nope"), <<DOT, SLASH>> \o README }

\* C21: in an initialized repository git add . makes the staging set its
\* previous value united with every path of the working files and every path
\* of the head snapshot absent from them; git add p adds the resolved path of
\* p when it is a working file or a path of the head snapshot, and otherwise
\* answers the pathspec error and leaves the staging set as it was; neither
\* changes the working files, the commits or the branch table.
C21_GitAdd ==
    (InTerminal /\ isGitInitialized) =>
        \A p \in AddNames :
            LET r == Run(Cur, Git("add", <<p>>))
                rp == Substring(resolvePath(cwd, p), 1)
                known == DOMAIN files \cup DOMAIN HeadFiles(Cur)
            IN /\ r.files = files
               /\ r.commits = commits
               /\ r.heads = heads
               /\ r.stagedFiles =
                     IF p = W(DOT) THEN stagedFiles \cup known
                     ELSE IF rp \in known THEN stagedFiles \cup {rp}
                     ELSE stagedFiles
               /\ (p # W(DOT) /\ rp \notin known) =>
                     r.output.msg = "fatal: pathspec did not match any files"

\* git add . has staged a path of the head snapshot that is no longer a
\* working file
C21_Witness ==
    /\ output.msg = "Staged all changes."
    /\ \E q \in stagedFiles : q \notin DOMAIN files /\ q \in DOMAIN HeadFiles(Cur)
    /\ DOMAIN files \subseteq stagedFiles

\* C21 as stated: git add . makes the staging set its previous value united
\* with every path of the working files and of the head snapshot, in every
\* state of the terminal.
C21_GitAddAsStated ==
    InTerminal =>
        LET r == Run(Cur, Git("add", <<W(DOT)>>))
        IN r.stagedFiles = stagedFiles \cup DOMAIN files \cup DOMAIN HeadFiles(Cur)

\* the paths whose working file is not in the snapshot, differs from it in
\* content, or is missing from the working files
AddedPaths(fs, snap) == DOMAIN fs \ DOMAIN snap

ModifiedPaths(fs, snap) ==
    { p \in DOMAIN fs \cap DOMAIN snap : fs[p].content # snap[p].content }

DeletedPaths(fs, snap) == DOMAIN snap \ DOMAIN fs

\* C22: git stash with a head commit and at least one added, modified or
\* deleted path puts a new stash at index 0, the older ones moving down
\* unchanged, that records exactly the added, modified and deleted paths and
\* the staging set; the working files become the head snapshot and the staging
\* set is emptied. With no head commit or no difference nothing changes.
C22_StashPush ==
    InTerminal =>
        LET r == Run(Cur, Git("stash", <<>>))
            snap == HeadFiles(Cur)
            differs == AddedPaths(files, snap) \cup ModifiedPaths(files, snap)
                       \cup DeletedPaths(files, snap)
        IN IF getHeadCommit(Cur) # 0 /\ differs # {}
           THEN /\ Len(r.stashes) = Len(stashes) + 1
                /\ Tail(r.stashes) = stashes
                /\ DOMAIN r.stashes[1].changes.added = AddedPaths(files, snap)
                /\ \A p \in AddedPaths(files, snap) :
                      r.stashes[1].changes.added[p] = files[p]
                /\ DOMAIN r.stashes[1].changes.modified = ModifiedPaths(files, snap)
                /\ \A p \in ModifiedPaths(files, snap) :
                      /\ r.stashes[1].changes.modified[p].newContent = files[p].content
                      /\ r.stashes[1].changes.modified[p].oldContent = snap[p].content
                /\ DOMAIN r.stashes[1].changes.deleted = DeletedPaths(files, snap)
                /\ \A p \in DeletedPaths(files, snap) :
                      r.stashes[1].changes.deleted[p] = snap[p]
                /\ r.stashes[1].changes.staged = stagedFiles
                /\ r.files = snap
                /\ r.stagedFiles = {}
                /\ r.commits = commits
                /\ r.heads = heads
           ELSE /\ r.stashes = stashes
                /\ r.files = files
                /\ r.stagedFiles = stagedFiles
                /\ r.commits = commits
                /\ r.heads = heads

\* a second stash has been pushed over an older one, with a staged path
\* recorded, and the working files are the head snapshot again
C22_Witness ==
    /\ output.msg = "Saved working directory and index state"
    /\ Len(stashes) >= 2
    /\ stashes[1].changes.staged # {}
    /\ files = HeadFiles(Cur)
    /\ stagedFiles = {}

\* C23: in an initialized repository git stash pop and git stash apply both
\* apply the stash at index 0 to the working files and restore its recorded
\* staging set; pop then removes it from the stack and apply leaves the stack
\* as it is; on an empty stack both answer "No stash found." and change
\* nothing.
C23_StashPopApply ==
    (InTerminal /\ isGitInitialized) =>
        \A w \in { "pop", "apply" } :
            LET r == Run(Cur, Git("stash", <<W(w)>>))
            IN IF stashes = <<>>
               THEN /\ r.output.msg = "No stash found."
                    /\ r.files = files
                    /\ r.stagedFiles = stagedFiles
                    /\ r.stashes = stashes
               ELSE /\ r.files = ApplyStashChanges(files, stashes[1].changes)
                    /\ r.stagedFiles = stashes[1].changes.staged
                    /\ r.stashes = IF w = "pop" THEN Tail(stashes) ELSE stashes

\* C24: in an initialized repository git stash list only reads: it outputs
\* one line per stash of the stack with its index and message, and leaves the
\* stash stack, the working files and the staging set unchanged, also when the
\* working files differ from the head snapshot.
C24_StashListReadOnly ==
    (InTerminal /\ isGitInitialized) =>
        LET r == Run(Cur, Git("stash", <<W("list")>>))
        IN /\ r.stashes = stashes
           /\ r.files = files
           /\ r.stagedFiles = stagedFiles
           /\ r.output.list = [i \in 1..Len(stashes) |-> stashes[i].message]
           /\ r.output.msg \in { "stash list", "No stashes." }

RebaseNames == { MAIN, FEATURE, W("nope") }

\* the id of the parent of the commit with the given id (NullId when there is
\* no such commit)
ParentOf(cs, id) ==
    IF id <= 0 \/ FindCommit(cs, id) = 0 THEN NullId ELSE cs[FindCommit(cs, id)].parentId

\* the id reached from id by n steps to the parent
RECURSIVE AncestorAt(_, _, _)
AncestorAt(cs, id, n) == IF n = 0 THEN id ELSE ParentOf(cs, AncestorAt(cs, id, n - 1))

\* the ids of the commits reachable from id, id included
Reachable(cs, id) ==
    { c \in CommitIds(cs) : \E n \in 0..Len(cs) : AncestorAt(cs, id, n) = c }

\* C25: git rebase t, for a branch t of the table other than the current one,
\* replays exactly the commits reachable from the current head that are not
\* the head of t or its ancestors, oldest first: each is appended as a new
\* commit with a fresh id and the same message and files, the first with the
\* head of t as parent and each next one with the previous copy as parent; the
\* current head becomes the last copy, the working files its snapshot, and the
\* other heads stay. With nothing to replay, or t unknown or current, the
\* commits, the heads and the working files are unchanged.
C25_RebaseReplaySet ==
    InTerminal =>
        \A t \in RebaseNames :
            LET r == Run(Cur, Git("rebase", <<t>>))
                valid == t \in DOMAIN heads /\ t # currentBranch
                replay == IF valid
                          THEN Reachable(commits, heads[currentBranch])
                                   \ Reachable(commits, heads[t])
                          ELSE {}
                k == Cardinality(replay)
                n == Len(commits)
            IN IF k = 0
               THEN /\ r.commits = commits
                    /\ r.heads = heads
                    /\ r.files = files
               ELSE /\ Len(r.commits) = n + k
                    /\ SubSeq(r.commits, 1, n) = commits
                    /\ { AncestorAt(commits, heads[currentBranch], j) : j \in 0..(k - 1) }
                          = replay
                    /\ \A i \in 1..k :
                          LET copy == r.commits[n + i]
                              orig == commits[FindCommit(commits,
                                         AncestorAt(commits, heads[currentBranch], k - i))]
                          IN /\ copy.id \notin CommitIds(commits)
                             /\ \A j \in 1..k : j # i => r.commits[n + j].id # copy.id
                             /\ copy.message = orig.message
                             /\ copy.files = orig.files
                             /\ copy.parentId = IF i = 1 THEN heads[t]
                                                ELSE r.commits[n + i - 1].id
                    /\ r.heads = MapSet(heads, currentBranch, r.commits[n + k].id)
                    /\ r.files = r.commits[n + k].files
                    /\ r.currentBranch = currentBranch

\* two commits made after a branch was created have been replayed onto the
\* head of that branch, the first commit of the list
C25_Witness ==
    /\ output.msg = "Successfully rebased and updated"
    /\ Len(commits) = 5
    /\ \E t \in DOMAIN heads : t # currentBranch /\ heads[t] = commits[1].id
    /\ commits[4].parentId = commits[1].id
    /\ commits[5].parentId = commits[4].id
    /\ commits[4].message = commits[2].message
    /\ commits[5].files = commits[3].files
    /\ heads[currentBranch] = commits[5].id
    /\ files = commits[5].files

\* lines whose last word is completed as a path
PathInputs ==
    { <<"c", "a", "t", SPACE>>,
      <<"c", "a", "t", SPACE, "foo", SLASH>>,
      <<"c", "a", "t", SPACE>> \o SRC \o W(SLASH),
      <<"r", "m", SPACE, "foo", SLASH, DOT>> }

\* whether the entry or path is a placeholder: named .gitkeep, or ending in
\* /.gitkeep
IsPlaceholder(e) == e = GITKEEP \/ EndsWith(e, W(SLASH) \o GITKEEP)

\* whether the text holds the name .gitkeep
NamesPlaceholder(s) == \E k \in 1..(Len(s) - 1) : SubSeq(s, k, k + 1) = GITKEEP

\* the paths of all the sections of git status
StatusPaths(st) ==
    LET l == Run(st, Git("status", <<>>)).output.list
    IN IF l = <<>> THEN {}
       ELSE l[1].stagedNew \cup l[1].stagedModified \cup l[1].stagedDeleted
            \cup l[1].modifiedNotStaged \cup l[1].deletedNotStaged \cup l[1].untracked

\* the entries printed by ls of the root
LsShown(st) ==
    LET out == Run(st, <<W("ls")>>).output
    IN IF out.msg = "ls" THEN { out.list[i] : i \in 1..Len(out.list) } ELSE {}

\* C26: in every reachable state no entry named .gitkeep and no path ending
\* in /.gitkeep is printed by ls, offered or inserted by Tab completion, listed
\* in a section of git status, or shown as a node of the file tree.
C26_PlaceholdersHidden ==
    /\ \A n \in buildFileTree(files) : ~IsPlaceholder(n.name) /\ ~IsPlaceholder(n.path)
    /\ \A e \in lastAutocompleteOutput : ~IsPlaceholder(e)
    /\ InTerminal =>
         /\ \A e \in LsShown(Cur) : ~IsPlaceholder(e)
         /\ \A p \in StatusPaths(Cur) : ~IsPlaceholder(p)
         /\ \A inp \in PathInputs \cup {input} :
               /\ \A e \in MatchingEntries(files, cwd, inp) : ~IsPlaceholder(e)
               /\ \A elapsed \in Elapsed :
                     NamesPlaceholder(HandleTab(TabState(inp, 0, {}), files, cwd,
                                                PrevKeyTime + elapsed).input)
                         => NamesPlaceholder(inp)

\* texts of the input box at which Tab is pressed
CompletionInputs ==
    PathInputs \cup
    { <<"c">>, <<"g">>, <<"g", "i", "t", SPACE, "s", "t">>,
      <<"g", "i", "t", SPACE, "x">>, <<"c", "a", "t", SPACE, "s">>,
      <<"c", "a", "t", SPACE, "README">>,
      <<"c", "a", "t", SPACE>> \o SRC \o <<SLASH, "i">>,
      <<"g", "i", "t", SPACE, "a", "d", "d", SPACE>> \o SRC \o <<SLASH, "a">> }

\* the text after the last space
LastToken(inp) == SplitSpace(inp)[Len(SplitSpace(inp))]

\* whether the text is the first word, or the second word after git
FirstWord(inp) == ~Includes(inp, SPACE)

SecondAfterGit(inp) ==
    Len(SplitSpace(inp)) = 2 /\ SplitSpace(inp)[1] = <<"g", "i", "t">>

\* the entries of the directory with the given segments: the next segment of
\* every key below it, with a '/' when the key goes deeper
EntriesOfDirectory(fs, dirSegs) ==
    { LET segs == Split(q)
      IN segs[Len(dirSegs) + 1] \o (IF Len(segs) > Len(dirSegs) + 1 THEN W(SLASH) ELSE <<>>) :
      q \in { k \in DOMAIN fs : /\ Len(Split(k)) > Len(dirSegs)
                                /\ SubSeq(Split(k), 1, Len(dirSegs)) = dirSegs } }

\* the partial text of the last token: all of it for a command or subcommand
\* name, the text after the last '/' for a path
Partial(inp) ==
    IF FirstWord(inp) \/ SecondAfterGit(inp) THEN LastToken(inp)
    ELSE Substring(LastToken(inp), LastSlashEnd(LastToken(inp)))

\* the candidates that start with the partial text
Candidates(fs, dir, inp) ==
    LET named == SubSeq(LastToken(inp), 1, LastSlashEnd(LastToken(inp)))
        all == IF FirstWord(inp) THEN { commands[i] : i \in 1..Len(commands) }
               ELSE IF SecondAfterGit(inp)
               THEN { gitSubCommands[i] : i \in 1..Len(gitSubCommands) }
               ELSE EntriesOfDirectory(fs,
                        FilterNonEmpty(Split(resolvePath(dir, Or(named, W(DOT))))))
    IN { c \in all : StartsWith(c, Partial(inp)) }

Tab(ts, elapsed) == HandleTab(ts, files, cwd, PrevKeyTime + elapsed)

\* C27: when Tab is pressed and exactly one candidate starts with the partial
\* text, the partial text is replaced by the candidate, the text up to the last
\* '/' being kept, followed by one space unless the candidate ends in '/'.
C27_UniqueCompletion ==
    InTerminal =>
        \A inp \in CompletionInputs \cup {input}, elapsed \in Elapsed :
            LET cands == Candidates(files, cwd, inp)
                r == Tab(TabState(inp, lastTabPressTime, lastAutocompleteOutput), elapsed)
            IN Cardinality(cands) = 1 =>
                 \A c \in cands :
                    /\ r.input = SubSeq(inp, 1, Len(inp) - Len(Partial(inp))) \o c
                                 \o (IF c[Len(c)] = SLASH THEN <<>> ELSE W(SPACE))
                    /\ r.lastAutocompleteOutput = lastAutocompleteOutput

\* Tab has completed cat src/i to cat src/index.js and a space
C27_Witness ==
    /\ InTerminal
    /\ input = <<"c", "a", "t", SPACE>> \o SRC \o W(SLASH) \o INDEXJS \o W(SPACE)
    /\ lastTabPressTime = 0

\* the longest text that every string of the set starts with
LongestCommonPrefix(S) ==
    LET s == CHOOSE x \in S : TRUE
        common == { p \in { SubSeq(s, 1, n) : n \in 0..Len(s) } :
                      \A t \in S : StartsWith(t, p) }
    IN CHOOSE p \in common : \A q \in common : Len(q) <= Len(p)

\* the timer and the list as they may stand before a Tab
TimerValues == { 0, PrevKeyTime }

\* C28: with more than one candidate, a first Tab (timer at 0, or the window
\* elapsed) does not display the list of candidates and changes the text only
\* by extending the partial text to the longest common prefix of the candidates
\* when that is longer; a second Tab inside the window, with no key in between,
\* displays all the candidates and leaves the text unchanged.
C28_MultipleMatches ==
    InTerminal =>
        \A inp \in CompletionInputs \cup {input} :
            LET cands == Candidates(files, cwd, inp)
            IN Cardinality(cands) > 1 =>
                 \A tm \in TimerValues, elapsed \in Elapsed :
                    (tm = 0 \/ elapsed >= RepeatWindow) =>
                        LET first == Tab(TabState(inp, tm, lastAutocompleteOutput), elapsed)
                            lcp == LongestCommonPrefix(cands)
                            second == Tab([first EXCEPT !.lastTabPressTime = PrevKeyTime],
                                          RepeatWindow - 1)
                        IN /\ first.lastAutocompleteOutput = lastAutocompleteOutput
                           /\ first.input =
                                 IF Len(lcp) > Len(Partial(inp))
                                 THEN SubSeq(inp, 1, Len(inp) - Len(Partial(inp))) \o lcp
                                 ELSE inp
                           /\ first.lastTabPressTime # 0
                           /\ second.lastAutocompleteOutput = cands
                           /\ second.input = first.input

\* Tab pressed twice on cat src/ has displayed index.js and app.js and left the
\* text as it was
C28_Witness ==
    /\ InTerminal
    /\ input = <<"c", "a", "t", SPACE>> \o SRC \o W(SLASH)
    /\ lastAutocompleteOutput = { INDEXJS, APPJS }
    /\ lastTabPressTime # 0

\* texts with several candidates, with one and with none
DisarmInputs ==
    { <<"c">>, <<"g", "i", "t", SPACE, "x">>, <<"c", "a", "t", SPACE, "s">>,
      <<"c", "a", "t", SPACE>> \o SRC \o W(SLASH) }

\* the states of the input box after a key-press, or a Tab with at most one
\* candidate, that follows an armed timer
AfterDisarming(inp) ==
    LET armed == TabState(inp, PrevKeyTime, lastAutocompleteOutput)
    IN { HandleOtherKey(armed), HandleEnterKey(armed) }
       \cup { HandleInputChange(HandleOtherKey(armed), Append(inp, a)) : a \in { SPACE, "s" } }
       \cup (IF Cardinality(Candidates(files, cwd, inp)) <= 1
             THEN { Tab(armed, e) : e \in Elapsed }
             ELSE {})

\* C29: a key-press other than Tab, a Tab with exactly one candidate and a Tab
\* with no candidate each reset the timer of the repeated Tab, so that the next
\* Tab with several candidates is a first press and displays no list, however
\* short the time since.
C29_RepeatWindowReset ==
    InTerminal =>
        \A inp \in DisarmInputs \cup {input} :
            \A r \in AfterDisarming(inp) :
                /\ r.lastTabPressTime = 0
                /\ Cardinality(Candidates(files, cwd, r.input)) > 1 =>
                      \A e \in Elapsed :
                         Tab(r, e).lastAutocompleteOutput = r.lastAutocompleteOutput

\* a list displayed by a double Tab is still there, the timer has been reset
\* by a key that left the text alone, and the text has several candidates
C29_Witness ==
    /\ InTerminal
    /\ lastAutocompleteOutput # {}
    /\ lastTabPressTime = 0
    /\ input # <<>>
    /\ Cardinality(Candidates(files, cwd, input)) > 1

\* the last file a fixedFiles array holds for the path p
LastFixed(fixedFiles, p) ==
    fixedFiles[CHOOSE i \in 1..Len(fixedFiles) :
                  /\ fixedFiles[i].path = p
                  /\ \A j \in (i + 1)..Len(fixedFiles) : fixedFiles[j].path # p]

\* the files with every path of fixedFiles set to its fixed content and
\* language, and every other path as it is
Upserted(fs, fixedFiles) ==
    [p \in DOMAIN fs \cup FixedPaths(fixedFiles) |->
        IF p \in FixedPaths(fixedFiles)
        THEN FileEntry(LastFixed(fixedFiles, p).content, LastFixed(fixedFiles, p).language)
        ELSE fs[p]]

\* C30: the step that ends a debugger request either is the arrival of a
\* result, and then every path named in fixedFiles gets the fixed content and
\* language and every other path keeps the entry it has at that time, edits and
\* effects of commands made during the request included, or is a failure, and
\* then the files are unchanged.
C30_FixIsAtomicUpsert ==
    [][ (isDebugging /\ ~isDebugging') =>
            \/ files' = files
            \/ \E fixedFiles \in FixedFilesSets : files' = Upserted(files, fixedFiles) ]_vars

\* a result that fixes a/x has arrived and README.md holds what the editor wrote
C30_Witness ==
    /\ ~isDebugging
    /\ AX \in DOMAIN files
    /\ files[AX].content = "x2"
    /\ files[README].content = "r2"

\* ---------------------------------------------------------------- debugger requests
\* C31: at most one debugger request is outstanding at any time, and
\* isDebugging is true exactly while a request is outstanding.
C31_OneRequestOutstanding ==
    /\ pending <= 1
    /\ isDebugging <=> pending > 0

\* ---------------------------------------------------------------- project load
\* file lists of the projects that are loaded, the last one with a README.md of
\* its own
LoadedProjects ==
    { EmptyProject, StudioProject, (README :> FileEntry("own", "markdown")) }

\* the effect on parsedContent when a project is already open: openTabs is not
\* empty, so the tabs stay, and a mounted SimulatedTerminal keeps its state
ReloadProject ==
    /\ \E pf \in LoadedProjects : files' = LoadProject(pf, "r1")
    /\ UNCHANGED <<activeTab, cwd, isGitInitialized, stagedFiles, commits, heads,
                   currentBranch, stashes, output, historyLen, linesLen, isDebugging,
                   showPostDebugPrompt, pending, commandHistory, historyIndex,
                   rInput, rResult, input, lastTabPressTime, lastAutocompleteOutput>>

\* git sessions during which projects are loaded
InitLoad == InitWith(EmptyProject)

NextLoad ==
    \/ ReloadProject \/ OpenTerminalTab \/ OpenFileTab \/ EditFile
    \/ EnterGitInit \/ EnterGitAdd \/ EnterGitCommit \/ EnterRm

SpecLoad == InitLoad /\ [][NextLoad]_vars

\* the step is a load of the file list pf
IsLoadOf(pf) ==
    /\ files' = LoadProject(pf, "r1")
    /\ UNCHANGED <<activeTab, cwd, isGitInitialized, stagedFiles, commits, heads,
                   currentBranch, stashes, output, historyLen, linesLen, isDebugging,
                   showPostDebugPrompt, pending, commandHistory, historyIndex,
                   rInput, rResult, input, lastTabPressTime, lastAutocompleteOutput>>

\* C32: after a project with file list F is loaded, the VFS paths are exactly
\* the paths of F, each with the content given in F, the repository is
\* uninitialized with no commits, no staged paths and no stashes, and the cwd is
\* the root, whatever the state before the load.
C32_LoadResets ==
    [][ \A pf \in LoadedProjects :
            IsLoadOf(pf) =>
                /\ DOMAIN files' = DOMAIN pf
                /\ \A p \in DOMAIN pf : files'[p].content = pf[p].content
                /\ ~isGitInitialized'
                /\ commits' = <<>>
                /\ stagedFiles' = {}
                /\ stashes' = <<>>
                /\ cwd' = ROOT ]_vars

\* C32, repository part alone: a load leaves the repository uninitialized and
\* empty
C32_LoadResetsRepository ==
    [][ \A pf \in LoadedProjects :
            IsLoadOf(pf) =>
                /\ ~isGitInitialized'
                /\ commits' = <<>>
                /\ stagedFiles' = {}
                /\ stashes' = <<>> ]_vars

\* ---------------------------------------------------------------- session state and tabs
\* C33: making another tab active, and returning to the terminal tab, leaves
\* the commits, the branch table, the current branch, the staging set, the
\* stash stack, the cwd and the command history as they were.
C33_TabSwitchKeepsSession ==
    [][ activeTab' # activeTab =>
            UNCHANGED <<commits, heads, currentBranch, stagedFiles, stashes, cwd,
                        historyLen>> ]_vars

\* ---------------------------------------------------------------- failed commands
NOPE == W("nope")

\* the error and usage messages of the shell and of git
ErrorMessages ==
    { "command not found", "ls: No such file or directory",
      "cd: No such file or directory", "cat: No such file or directory",
      "rm: No such file or directory", "mkdir: File exists",
      "usage: cat [filename]", "usage: mkdir [dirname]", "usage: rm [file_or_directory]",
      "fatal: not a git repository", "Nothing specified, nothing added.",
      "fatal: pathspec did not match any files", "usage: git commit -m",
      "fatal: A branch already exists.", "error: pathspec did not match",
      "usage: git checkout <branch>", "usage: git rebase <branch>",
      "fatal: invalid upstream", "Cannot stash without a commit.",
      "No stash found.", "is not a git command" }

\* lines that fail in some state or in every state
FailingLines ==
    { <<W("frobnicate")>>,
      <<W("ls"), NOPE>>, <<W("cd"), NOPE>>, <<W("cat"), NOPE>>, <<W("rm"), NOPE>>,
      <<W("cat")>>, <<W("rm")>>, <<W("mkdir")>>,
      <<W("mkdir"), FOO>>, <<W("mkdir"), README>>,
      Git("add", <<NOPE>>), Git("add", <<>>), Git("commit", <<>>),
      Git("branch", <<MAIN>>), Git("branch", <<FEATURE>>),
      Git("checkout", <<NOPE>>), Git("checkout", <<>>),
      Git("rebase", <<NOPE>>), Git("rebase", <<>>),
      Git("stash", <<>>), Git("push", <<>>),
      <<W("git"), <<"stash", "@", "pop">>>>, <<W("git")>> }

\* commands issued after a failed one
FollowingLines == { Git("add", <<W(DOT)>>), Git("status", <<>>), <<W("mkdir"), FOO>> }

\* sessions of commands that succeed and commands that fail
NextFail ==
    \/ OpenTerminalTab \/ OpenFileTab
    \/ EnterGitInit \/ EnterGitAdd \/ EnterGitCommit \/ EnterGitBranch
    \/ EnterGitStash \/ EnterMkdir \/ EnterCd \/ EnterUnknown

SpecFail == Init /\ [][NextFail]_vars

\* C34: a command that answers with an error or usage message leaves the
\* working files, cwd, repository flag, commits, branch table, current branch,
\* staging set and stash stack unchanged, and the command issued after it does
\* what it would have done without the failed one.
C34_FailedCommandsChangeNothing ==
    InTerminal =>
        \A line \in FailingLines :
            LET r == Run(Cur, line)
            IN r.output.msg \in ErrorMessages =>
                   /\ r = [Cur EXCEPT !.output = r.output]
                   /\ \A nxt \in FollowingLines : Run(r, nxt) = Run(Cur, nxt)

\* `git branch feature` has been refused in a repository with a commit, a
\* staged path and the branch feature
C34_Witness ==
    /\ output.msg = "fatal: A branch already exists."
    /\ Len(commits) >= 1
    /\ stagedFiles # {}
    /\ FEATURE \in DOMAIN heads

\* ---------------------------------------------------------------- git branch
BranchNamesTried == { MAIN, FEATURE, W("dev") }

\* what the claim says of `git branch n` and of `git branch` in the state
BranchAsClaimed ==
    /\ \A n \in BranchNamesTried :
          LET r == Run(Cur, Git("branch", <<n>>))
          IN IF n \notin DOMAIN heads
             THEN /\ DOMAIN r.heads = DOMAIN heads \cup {n}
                  /\ r.heads[n] = heads[currentBranch]
                  /\ (commits = <<>> => r.heads[n] = EmptyId)
                  /\ \A b \in DOMAIN heads : r.heads[b] = heads[b]
                  /\ r.currentBranch = currentBranch
                  /\ r.stagedFiles = stagedFiles
                  /\ r.files = files
             ELSE /\ r.output.msg = "fatal: A branch already exists."
                  /\ r.heads = heads
    /\ LET r == Run(Cur, Git("branch", <<>>))
       IN r = [Cur EXCEPT !.output = r.output]

\* C35: in an initialized repository, git branch n for a name that is not in
\* the branch table adds n with the head of the current branch (the empty
\* string when there is no commit) and changes neither the current branch, any
\* other head, the staging set nor the working files; for a name of the table
\* it reports an error and leaves the table unchanged; git branch without
\* argument changes nothing.
C35_GitBranch ==
    (InTerminal /\ isGitInitialized) => BranchAsClaimed

\* C35 as stated, in every state of the terminal
C35_GitBranchAsStated ==
    InTerminal => BranchAsClaimed

\* feature has just been created on a commit, with a path staged
C35_Witness ==
    /\ output.msg = "Branch created."
    /\ output.arg = FEATURE
    /\ heads[FEATURE] # EmptyId
    /\ heads[FEATURE] = heads[currentBranch]
    /\ stagedFiles # {}

\* ---------------------------------------------------------------- history recall
\* k presses of ArrowUp
RECURSIVE ArrowUpTimes(_, _)
ArrowUpTimes(hs, k) == IF k = 0 THEN hs ELSE ArrowUpTimes(HandleArrowUp(hs), k - 1)

\* the k-th most recent command, the oldest one once k exceeds the length
KthMostRecent(history, k) ==
    IF k <= Len(history) THEN history[k] ELSE history[Len(history)]

\* C36: the history cursor stays within -1 .. (history length - 1); a submitted
\* non-blank line is put, trimmed, at the front of the history and resets the
\* cursor to -1; from cursor -1, k presses of ArrowUp show the k-th most recent
\* command, the oldest one once k exceeds the length; ArrowDown from cursor 0
\* returns to cursor -1 with an empty input.
C36_HistoryRecall ==
    InTerminal =>
        /\ historyIndex \in -1..(Len(commandHistory) - 1)
        /\ historyLen = Len(commandHistory)
        /\ Trim(input) # <<>> =>
              /\ HandleEnterHistory(CurHistory).commandHistory
                     = <<Trim(input)>> \o commandHistory
              /\ HandleEnterHistory(CurHistory).historyIndex = -1
        /\ (historyIndex = -1 /\ commandHistory # <<>>) =>
              \A k \in 1..(MaxRecall + 2) :
                  /\ ArrowUpTimes(CurHistory, k).input = KthMostRecent(commandHistory, k)
                  /\ ArrowUpTimes(CurHistory, k).commandHistory = commandHistory
        /\ historyIndex = 0 =>
              /\ HandleArrowDown(CurHistory).historyIndex = -1
              /\ HandleArrowDown(CurHistory).input = <<>>
              /\ HandleArrowDown(CurHistory).commandHistory = commandHistory

\* three commands were submitted, help last and ls first, and three presses of
\* ArrowUp have recalled the oldest
C36_Witness ==
    /\ Len(commandHistory) = 3
    /\ commandHistory[1] = <<"h", "e", "l", "p">>
    /\ commandHistory[3] = <<"l", "s">>
    /\ historyIndex = 2
    /\ input = <<"l", "s">>

\* ---------------------------------------------------------------- status and commit
\* C37: in every reachable state of an initialized repository, if git status
\* reports "nothing to commit, working tree clean" then git commit -m <msg>
\* issued in the same state reports "nothing to commit" and creates no commit.
C37_StatusAndCommitAgree ==
    (InTerminal /\ isGitInitialized
       /\ Run(Cur, Git("status", <<>>)).output.msg
              = "On branch: nothing to commit, working tree clean") =>
        \A msg \in Messages :
            LET r == Run(Cur, Git("commit", <<W("-m"), msg>>))
            IN /\ r.output.msg = "nothing to commit, working tree clean"
               /\ r.commits = commits

\* ---------------------------------------------------------------- commit graph
\* the number of commits visited by a walk from id along parentId, counted up
\* to fuel
RECURSIVE WalkLen(_, _, _)
WalkLen(cs, id, fuel) ==
    IF fuel = 0 \/ id <= 0 \/ FindCommit(cs, id) = 0 THEN 0
    ELSE 1 + WalkLen(cs, cs[FindCommit(cs, id)].parentId, fuel - 1)

\* C38: in every reachable state each commit's parentId is null, the empty
\* string, or the id of a commit that stands earlier in the commit list; the
\* parent chain from every branch head visits no commit twice, and the walks
\* of git log and git rebase from a head end after at most as many steps as
\* there are commits.
C38_CommitGraphWellFounded ==
    /\ \A i \in 1..Len(commits) :
          \/ commits[i].parentId \in { NullId, EmptyId }
          \/ \E j \in 1..(i - 1) : commits[j].id = commits[i].parentId
    /\ \A b \in DOMAIN heads :
          /\ WalkLen(commits, heads[b], Len(commits) + 1) <= Len(commits)
          /\ LET visited == LogFrom(commits, heads[b], heads[b])
             IN /\ Len(visited) <= Len(commits)
                /\ Cardinality({ visited[k].id : k \in 1..Len(visited) }) = Len(visited)

\* a rebase has copied commits, and the chain from the current head holds the
\* copy and the commit it was put on
C38_Witness ==
    /\ output.msg = "Successfully rebased and updated"
    /\ Len(commits) >= 3
    /\ WalkLen(commits, heads[currentBranch], Len(commits) + 1) >= 2
    /\ \E i \in 1..Len(commits) : commits[i].parentId > 0

====
